---- MODULE Spec2Model ----
(***************************************************************************)
(* Model of copilot-ui: the shell-command executable extractor of          *)
(* src/main/utils/extractExecutables.ts, the main process of               *)
(* src/main/main.ts with its persisted settings, its Copilot client and    *)
(* session, and its IPC handlers, and the renderer of src/renderer/App.tsx *)
(* with its message list.                                                  *)
(*                                                                         *)
(* A command line is a TLA+ string.  The regular expressions of the source *)
(* are modelled by what a backtracking matcher returns for them: the       *)
(* leftmost match, with greedy and lazy quantifiers tried in the order     *)
(* the JavaScript engine tries them.                                       *)
(*                                                                         *)
(* The back-tick (U+0060) has no spelling in a TLA+ string literal.  The   *)
(* model writes it as the Greek varia (U+1FEF), the character whose        *)
(* canonical decomposition is the back-tick: BackTick below.  The          *)
(* expressions of the source class the two alike in every place but line   *)
(* 30: neither white space nor a word character nor a shell operator.  A   *)
(* command line of the model that holds BackTick is the command line of    *)
(* the program with a back-tick in that place.                             *)
(*                                                                         *)
(* The main process is a state machine over its module-level variables.    *)
(* An async function runs from one await to the next in one step; what it  *)
(* awaits (the Copilot SDK) resolves or rejects in a later step.           *)
(***************************************************************************)
EXTENDS Integers, Sequences, FiniteSets, TLC

VARIABLES
  command,            \* the argument of the call (line 15)
  executables,        \* the list the call returned (lines 16 and 105)
  pc,                 \* "ready" before the call, "returned" or "threw" after it
  second,             \* the argument of a second call, "" when there is none
  executablesSecond,  \* the list the second call returned
  executablesJoined,  \* the list returned for command, ";" and second joined
  store,              \* the settings file: a set of <<key, value>> (main.ts line 6)
  app,                \* the main process: "off", "starting" (the module is
                      \* evaluated, the application not ready) or "running"
  launches,           \* how often the main process was started
  currentModel,       \* main.ts line 15
  windows,            \* the windows createWindow made in this run, in order:
                      \* "loading", "loaded" or "closed"
  mainWindow,         \* main.ts line 12: 0 for null, else an index of windows
  copilotClient,      \* main.ts line 13: 0 for null, else an index of clients
  clients,            \* the clients this run constructed, in order: the state
                      \* of each and how often stop() was called on it
  session,            \* main.ts line 14: 0 for null, else an index of sessions
  sessions,           \* the sessions the SDK created in this run, in order
  initCopilot,        \* the activations of initCopilot, in order: where each
                      \* is, the model it passed to createSession, its client
  handlers,           \* the handler calls of this run, in order of arrival
  quitCalls,          \* how often app.quit() was called in this run
  status,             \* App.tsx line 25
  messages,           \* App.tsx line 27: the list of messages
  isProcessing,       \* App.tsx line 28
  activeTools,        \* App.tsx line 32: the list of tool indicators
  messageIdCounter,   \* App.tsx line 20
  sending,            \* the calls of copilot.send that line 177 awaits
  timers,             \* the toolCallIds of the pending timers of line 128,
                      \* in the order the timers were started
  rendererModel,      \* App.tsx line 29: currentModel of the renderer
  availableModels,    \* App.tsx line 30
  fetching,           \* the calls of copilot.getModels that line 64 awaits
  resetting,          \* the calls of copilot.reset that line 199 awaits
  changing,           \* the calls of copilot.setModel that line 214 awaits
  events              \* how many events the renderer has handled

\* The variables of the main process.
mainVars ==
  <<store, app, launches, currentModel, windows, mainWindow, copilotClient,
    clients, session, sessions, initCopilot, handlers, quitCalls>>

\* The variables of the extractor, which the main process does not touch.
extractorVars ==
  <<command, executables, pc, second, executablesSecond, executablesJoined>>

\* The variables of the renderer.
rendererVars ==
  <<status, messages, isProcessing, activeTools, messageIdCounter, sending,
    timers, rendererModel, availableModels, fetching, resetting, changing,
    events>>

vars ==
  <<command, executables, pc, second, executablesSecond, executablesJoined,
    mainVars, rendererVars>>

\* The main process before its first start, with nothing stored.
MainNotStarted ==
  /\ store = {}
  /\ app = "off"
  /\ launches = 0
  /\ currentModel = ""
  /\ windows = <<>>
  /\ mainWindow = 0
  /\ copilotClient = 0
  /\ clients = <<>>
  /\ session = 0
  /\ sessions = <<>>
  /\ initCopilot = <<>>
  /\ handlers = <<>>
  /\ quitCalls = 0

\* The renderer when App is mounted: the initial values of lines 20-32.
AppMounted ==
  /\ status = "connecting"
  /\ messages = <<>>
  /\ isProcessing = FALSE
  /\ activeTools = <<>>
  /\ messageIdCounter = 0
  /\ sending = 0
  /\ timers = <<>>
  /\ rendererModel = "gpt-5"
  /\ availableModels = <<>>
  /\ fetching = 1
  /\ resetting = 0
  /\ changing = 0
  /\ events = 0

(***************************************************************************)
(* Characters and character classes of the regular expressions.            *)
(***************************************************************************)
\* s.slice(m - 1, n): the characters m..n of s, indices past the end dropped.
Sub(s, m, n) ==
  IF m > n \/ m > Len(s) THEN ""
  ELSE SubSeq(s, m, IF n > Len(s) THEN Len(s) ELSE n)

\* The character of s at index i, "" past the end.
Ch(s, i) == Sub(s, i, i)

Digit == {"0", "1", "2", "3", "4", "5", "6", "7", "8", "9"}

Upper == {"A", "B", "C", "D", "E", "F", "G", "H", "I", "J", "K", "L", "M",
          "N", "O", "P", "Q", "R", "S", "T", "U", "V", "W", "X", "Y", "Z"}

Lower == {"a", "b", "c", "d", "e", "f", "g", "h", "i", "j", "k", "l", "m",
          "n", "o", "p", "q", "r", "s", "t", "u", "v", "w", "x", "y", "z"}

\* \w
WordChar == Upper \cup Lower \cup Digit \cup {"_"}

\* [a-zA-Z0-9_-]
NameChar == WordChar \cup {"-"}

\* \s, and what trim() strips: space, tab, newline, carriage return and form
\* feed, then, written raw, the vertical tab U+000B, U+00A0, U+1680 and
\* U+FEFF.  The rest of the class (U+2000 to U+200A, U+2028, U+2029, U+202F,
\* U+205F, U+3000) has no spelling in a TLA+ string: no string of the model
\* holds one of them.
Space == {" ", "\t", "\n", "\r", "\f", "", " ", " ", "﻿"}

\* ['"]
Quote == {"'", "\""}

\* The back-tick of line 30, written as U+1FEF.
BackTick == "`"

\* The separators without the pipe.
SeparatorWithoutPipe == {";", "&", "\n"}

\* The separators without the semicolon.
SeparatorWithoutSemicolon == {"&", "|", "\n"}

\* [;&|\n]
Separator == {";", "&", "|", "\n"}

\* [<>|&;()]
Punctuation == {"<", ">", "|", "&", ";", "(", ")"}

\* The first index >= i of s whose character is outside class (Len(s)+1 if none):
\* where a greedy class* started at i stops.
RECURSIVE Skip(_, _, _)
Skip(s, i, class) ==
  IF i <= Len(s) /\ Ch(s, i) \in class THEN Skip(s, i + 1, class) ELSE i

\* The first index >= i of s whose character is inside class (Len(s)+1 if none):
\* where a greedy [^class]* started at i stops.
RECURSIVE SkipNot(_, _, _)
SkipNot(s, i, class) ==
  IF i <= Len(s) /\ Ch(s, i) \notin class THEN SkipNot(s, i + 1, class) ELSE i

\* ^[class]+$
AllIn(s, class) == Len(s) > 0 /\ Skip(s, 1, class) = Len(s) + 1

\* String.prototype.includes for a one-character needle
Includes(s, c) == SkipNot(s, 1, {c}) <= Len(s)

\* String.prototype.startsWith for a one-character needle
StartsWith(s, c) == Ch(s, 1) = c

\* Array.prototype.includes
Contains(seq, x) == \E k \in 1..Len(seq) : seq[k] = x

(***************************************************************************)
(* Line 21: the terminated heredoc,                                        *)
(*   /<<\s*['"]?(\w+)['"]?[\s\S]*?\n\1\s*(?=\n|$)/g  replaced by ''.       *)
(***************************************************************************)
\* <<\s*['"]? tried at index i: the index where (\w+) starts, 0 if s has no
\* "<<" at i.  \s* and ['"]? take all they can: giving a character back
\* leaves \w+ facing a white space or a quote, which it cannot match.
MarkerStart(s, i) ==
  IF Sub(s, i, i + 1) /= "<<" THEN 0
  ELSE LET a == Skip(s, i + 2, Space)
       IN  IF Ch(s, a) \in Quote THEN a + 1 ELSE a

\* The greatest index in from..to of s holding a newline, 0 if none.
RECURSIVE LastNewline(_, _, _)
LastNewline(s, from, to) ==
  IF to < from THEN 0
  ELSE IF Ch(s, to) = "\n" THEN to
  ELSE LastNewline(s, from, to - 1)

\* \n\1\s*(?=\n|$) tried at index p with \1 = word: the index after the match,
\* 0 if it fails.  The greedy \s* runs to the end of the white space and gives
\* characters back until the lookahead sees a newline or the end of input.
TerminatorEnd(s, p, word) ==
  IF Ch(s, p) = "\n" /\ Sub(s, p + 1, p + Len(word)) = word
  THEN LET r == p + 1 + Len(word)
           e == Skip(s, r, Space)
       IN  IF e > Len(s) THEN e ELSE LastNewline(s, r, e - 1)
  ELSE 0

\* The same with a greedy star: the last terminator at or after p ends the
\* match.
RECURSIVE FindTerminatorGreedy(_, _, _)
FindTerminatorGreedy(s, p, word) ==
  IF p > Len(s) THEN 0
  ELSE LET later == FindTerminatorGreedy(s, p + 1, word)
       IN  IF later /= 0 THEN later ELSE TerminatorEnd(s, p, word)

\* [\s\S]*?\n\1\s*(?=\n|$) from index p on: the lazy star grows one character
\* at a time, so the first terminator at or after p ends the match.
RECURSIVE FindTerminator(_, _, _)
FindTerminator(s, p, word) ==
  IF p > Len(s) THEN 0
  ELSE LET e == TerminatorEnd(s, p, word)
       IN  IF e /= 0 THEN e ELSE FindTerminator(s, p + 1, word)

\* (\w+) started at b, tried with w characters and, on failure, with fewer
\* (the greedy + backtracks).  The optional closing quote changes nothing: the
\* lazy star that follows matches it just as well.
RECURSIVE TryMarker(_, _, _)
TryMarker(s, b, w) ==
  IF w < 1 THEN 0
  ELSE LET e == FindTerminator(s, b + w, Sub(s, b, b + w - 1))
       IN  IF e /= 0 THEN e ELSE TryMarker(s, b, w - 1)

\* The whole expression tried at index i: the index after the match, 0 if none.
HeredocEnd(s, i) ==
  LET b == MarkerStart(s, i)
  IN  IF b = 0 THEN 0 ELSE TryMarker(s, b, Skip(s, b, WordChar) - b)

\* command.replace(<line 21>, '') from index i on.
RECURSIVE StripHeredocsFrom(_, _)
StripHeredocsFrom(s, i) ==
  IF i > Len(s) THEN ""
  ELSE LET e == HeredocEnd(s, i)
       IN  IF e /= 0 THEN StripHeredocsFrom(s, e)
           ELSE Ch(s, i) \o StripHeredocsFrom(s, i + 1)

\* The extractor without the replace of line 21.
StripHeredocsSkipped(s) == s

StripHeredocs(s) == StripHeredocsFrom(s, 1)

(***************************************************************************)
(* Line 24: the heredoc with no closing marker,                            *)
(*   /<<\s*['"]?\w+['"]?[\s\S]*$/g  replaced by ''.                        *)
(***************************************************************************)
\* <<\s*['"]?\w+ matches at index i.
IsHeredocOpener(s, i) ==
  LET b == MarkerStart(s, i) IN b /= 0 /\ Ch(s, b) \in WordChar

\* The first index >= i where the opener matches, Len(s)+1 if none.
RECURSIVE FirstOpener(_, _)
FirstOpener(s, i) ==
  IF i > Len(s) \/ IsHeredocOpener(s, i) THEN i ELSE FirstOpener(s, i + 1)

\* [\s\S]*$ is greedy and runs to the end of input.
StripUnterminated(s) == Sub(s, 1, FirstOpener(s, 1) - 1)

(***************************************************************************)
(* Lines 28-30: /"[^"]*"/g replaced by '""', then the same for ' and for   *)
(* the back-tick.                                                          *)
(***************************************************************************)
RECURSIVE NeutralizeFrom(_, _, _)
NeutralizeFrom(s, q, i) ==
  IF i > Len(s) THEN ""
  ELSE IF Ch(s, i) = q
  THEN LET j == SkipNot(s, i + 1, {q})
       IN  IF j <= Len(s) THEN q \o q \o NeutralizeFrom(s, q, j + 1)
           ELSE Sub(s, i, Len(s))
  ELSE Ch(s, i) \o NeutralizeFrom(s, q, i + 1)

\* A replace that leaves the literals as they are.
NeutralizeNothing(s, q) == s

Neutralize(s, q) == NeutralizeFrom(s, q, 1)

NeutralizeLiterals(s) ==
  Neutralize(Neutralize(Neutralize(s, "\""), "'"), BackTick)

(***************************************************************************)
(* Lines 33-35: the redirections, each replaced by ''.                     *)
(***************************************************************************)
\* /\d*>&?\d+/ tried at index i: the index after the match, 0 if none.
DupEnd(s, i) ==
  LET g == Skip(s, i, Digit)
      a == IF Ch(s, g + 1) = "&" THEN g + 2 ELSE g + 1
      e == Skip(s, a, Digit)
  IN  IF Ch(s, g) = ">" /\ e > a THEN e ELSE 0

\* /\d+>>\S+/ tried at index i.
AppendEnd(s, i) ==
  LET g == Skip(s, i, Digit)
      e == SkipNot(s, g + 2, Space)
  IN  IF g > i /\ Sub(s, g, g + 1) = ">>" /\ e > g + 2 THEN e ELSE 0

\* /\d+>\S+/ tried at index i.
WriteEnd(s, i) ==
  LET g == Skip(s, i, Digit)
      e == SkipNot(s, g + 1, Space)
  IN  IF g > i /\ Ch(s, g) = ">" /\ e > g + 1 THEN e ELSE 0

\* The index after the match of the given form at index i, 0 if none.
RedirectionEnd(s, i, form) ==
  CASE form = "dup" -> DupEnd(s, i)
    [] form = "append" -> AppendEnd(s, i)
    [] form = "write" -> WriteEnd(s, i)

\* s.replace(/<form>/g, '') from index i on.
RECURSIVE RemoveFrom(_, _, _)
RemoveFrom(s, i, form) ==
  IF i > Len(s) THEN ""
  ELSE LET e == RedirectionEnd(s, i, form)
       IN  IF e /= 0 THEN RemoveFrom(s, e, form)
           ELSE Ch(s, i) \o RemoveFrom(s, i + 1, form)

StripRedirections(s) ==
  RemoveFrom(RemoveFrom(RemoveFrom(s, 1, "dup"), 1, "append"), 1, "write")

\* Lines 21-35: the text that is split into segments.
Cleaned(s) ==
  StripRedirections(NeutralizeLiterals(StripUnterminated(StripHeredocs(s))))

(***************************************************************************)
(* Lines 38, 41 and 48: split and trim.                                    *)
(***************************************************************************)
\* s.split(/[class]+/) from index i on, cur the piece read so far.
RECURSIVE SplitFrom(_, _, _, _)
SplitFrom(s, i, class, cur) ==
  IF i > Len(s) THEN <<cur>>
  ELSE IF Ch(s, i) \in class
  THEN <<cur>> \o SplitFrom(s, Skip(s, i, class), class, "")
  ELSE SplitFrom(s, i + 1, class, cur \o Ch(s, i))

Segments(s) == SplitFrom(s, 1, Separator, "")

RECURSIVE LastNonSpace(_, _)
LastNonSpace(s, i) ==
  IF i >= 1 /\ Ch(s, i) \in Space THEN LastNonSpace(s, i - 1) ELSE i

\* String.prototype.trim
Trim(s) == Sub(s, Skip(s, 1, Space), LastNonSpace(s, Len(s)))

Parts(trimmed) == SplitFrom(trimmed, 1, Space, "")

(***************************************************************************)
(* Lines 1-9 and 49: the fixed word lists.                                 *)
(***************************************************************************)
SUBCOMMAND_EXECUTABLES == <<"git", "npm", "yarn", "pnpm", "docker", "kubectl">>

SHELL_BUILTINS_TO_SKIP == <<"true", "false">>

SHELL_KEYWORDS_TO_SKIP ==
  <<"for", "in", "do", "done", "while", "until", "if", "then", "else", "elif",
    "fi", "case", "esac", "select">>

\* The list without one of its words.
prefixesWithoutTime == <<"sudo", "env", "nohup", "nice", "command">>

prefixes == <<"sudo", "env", "nohup", "nice", "time", "command">>

(***************************************************************************)
(* Lines 54-94: the scan of one segment's parts.                           *)
(***************************************************************************)
\* Lines 57-69: the parts the scan steps over.
IsSkipped(part) ==
  \/ Includes(part, "=") /\ ~StartsWith(part, "-")
  \/ StartsWith(part, "-")
  \/ Contains(prefixes, part)
  \/ Contains(SHELL_BUILTINS_TO_SKIP, part)
  \/ Contains(SHELL_KEYWORDS_TO_SKIP, part)
  \/ part = ""
  \/ AllIn(part, Punctuation)
  \/ StartsWith(part, ">")
  \/ StartsWith(part, "<")

\* The greatest index <= i of s holding "/", 0 if none.
RECURSIVE LastSlash(_, _)
LastSlash(s, i) ==
  IF i < 1 \/ Ch(s, i) = "/" THEN i ELSE LastSlash(s, i - 1)

\* part.replace(/^.*\//, ''): the greedy .* runs to the last "/".
Basename(part) == Sub(part, LastSlash(part, Len(part)) + 1, Len(part))

\* /^[a-zA-Z0-9_-]+$/
IsName(s) == AllIn(s, NameChar)

\* The search without the break of line 88: a part that is no name is
\* stepped over too.
RECURSIVE FindSubcommandSkipping(_, _)
FindSubcommandSkipping(parts, j) ==
  IF j > Len(parts) THEN ""
  ELSE IF IsName(parts[j]) /\ ~StartsWith(parts[j], "-") THEN parts[j]
  ELSE FindSubcommandSkipping(parts, j + 1)

\* Lines 80-89: the sub-command looked for from part j on, "" for null.
RECURSIVE FindSubcommand(_, _)
FindSubcommand(parts, j) ==
  IF j > Len(parts) THEN ""
  ELSE LET nextPart == parts[j]
       IN  IF StartsWith(nextPart, "-") THEN FindSubcommand(parts, j + 1)
           ELSE IF Includes(nextPart, "=") THEN FindSubcommand(parts, j + 1)
           ELSE IF IsName(nextPart) THEN nextPart
           ELSE ""

\* The loop condition written i <= parts.length: one part too many is read.
InLoopOffByOne(parts, i) == i <= Len(parts) + 1

\* Line 54: the loop condition i < parts.length (parts are numbered from 1 here).
InLoop(parts, i) == i <= Len(parts)

NotFound == [foundExec |-> "", subcommand |-> "", threw |-> FALSE]

\* Lines 54-94 from part i on.  foundExec and subcommand are "" for null.  A
\* part read past the end of the array is undefined, and calling includes on
\* it is a TypeError.
RECURSIVE ScanParts(_, _)
ScanParts(parts, i) ==
  IF ~InLoop(parts, i) THEN NotFound
  ELSE IF i > Len(parts) THEN [NotFound EXCEPT !.threw = TRUE]
  ELSE LET part == parts[i]
           exec == Basename(part)
       IN  IF IsSkipped(part) THEN ScanParts(parts, i + 1)
           ELSE IF exec /= "" /\ IsName(exec)
           THEN [foundExec |-> exec,
                 subcommand |-> IF Contains(SUBCOMMAND_EXECUTABLES, exec)
                                THEN FindSubcommand(parts, i + 1) ELSE "",
                 threw |-> FALSE]
           ELSE ScanParts(parts, i + 1)

\* The test of line 45 without its end anchor: a segment that starts with an
\* upper-case letter is dropped.
IsScannedUnanchored(trimmed) == trimmed /= "" /\ Ch(trimmed, 1) \notin Upper

\* Lines 41-45: the segments that are scanned at all.
IsScanned(trimmed) == trimmed /= "" /\ ~AllIn(trimmed, Upper)

\* Lines 41-94 for one segment.
ScanSegment(segment) ==
  LET trimmed == Trim(segment)
  IN  IF IsScanned(trimmed) THEN ScanParts(Parts(trimmed), 1) ELSE NotFound

\* The identity with a colon between the executable and the sub-command.
ExecIdWithColon(found) ==
  IF found.subcommand /= "" THEN found.foundExec \o ":" \o found.subcommand
  ELSE found.foundExec

\* Line 98: the identity of a scan, "" if it found none.
ExecId(found) ==
  IF found.subcommand /= "" THEN found.foundExec \o " " \o found.subcommand
  ELSE found.foundExec

\* The identity a segment contributes, "" if none.
SegmentIdentity(segment) == ExecId(ScanSegment(segment))

\* A push that moves an identity already included to the end.
PushUniqueMovingToEnd(list, execId) ==
  Append(SelectSeq(list, LAMBDA x : x /= execId), execId)

\* The push without the includes test of line 99.
PushAlways(list, execId) == Append(list, execId)

\* Lines 99-101: push unless already included.
PushUnique(list, execId) ==
  IF Contains(list, execId) THEN list ELSE Append(list, execId)

\* The loop without the test of line 96: what a segment's scan leaves is
\* pushed even when it found nothing.
RECURSIVE AccumulateUnguarded(_, _, _)
AccumulateUnguarded(segments, k, list) ==
  IF k > Len(segments) THEN list
  ELSE AccumulateUnguarded(segments, k + 1,
                           PushUnique(list, SegmentIdentity(segments[k])))

\* Lines 40-103: the loop over the segments from segment k on.
RECURSIVE Accumulate(_, _, _)
Accumulate(segments, k, list) ==
  IF k > Len(segments) THEN list
  ELSE LET execId == SegmentIdentity(segments[k])
       IN  Accumulate(segments, k + 1,
                      IF execId /= "" THEN PushUnique(list, execId) ELSE list)

\* Lines 15-106.
extractExecutables(cmd) == Accumulate(Segments(Cleaned(cmd)), 1, <<>>)

\* The call ends in an exception instead of a return.
Throws(cmd) ==
  LET segments == Segments(Cleaned(cmd))
  IN  \E k \in 1..Len(segments) : ScanSegment(segments[k]).threw

(***************************************************************************)
(* The command lines the extractor is called with.                         *)
(***************************************************************************)
\* The first k strings of a sequence, concatenated.
RECURSIVE ConcatTo(_, _)
ConcatTo(strings, k) ==
  IF k = 0 THEN "" ELSE ConcatTo(strings, k - 1) \o strings[k]

\* Every concatenation of at most n of the given tokens.
TokenStrings(tokens, n) ==
  {ConcatTo(ts, Len(ts)) : ts \in UNION {[1..k -> tokens] : k \in 0..n}}

\* The worked examples of the specification (section 8).
ExampleEmpty == ""
ExampleList == "ls -la /tmp"
ExampleCommit == "git commit -m 'fix: handles <<EOF markers'"
ExampleBuild == "echo hello && npm run build"
ExampleDocker == "sudo docker ps -a"
ExampleHeredoc == "cat <<'EOF'\nsome text with rm -rf /\nEOF\necho done"
ExampleTee == "cmd 2>&1 | tee /tmp/out.log"
ExampleLoop == "for f in *.txt; do cat \"$f\"; done"

Examples ==
  {ExampleEmpty, ExampleList, ExampleCommit, ExampleBuild, ExampleDocker,
   ExampleHeredoc, ExampleTee, ExampleLoop}

MaxTokens == 4

\* Words, paths, separators, an open quote and a heredoc opener, in any order.
GeneralTokens == {"ls", "git", " ", ";", "./a.b", "\"", "<<A"}

GeneralInputs == TokenStrings(GeneralTokens, MaxTokens) \cup Examples

(***************************************************************************)
(* The calls.  pc is "ready" before the call of extractExecutables(command)*)
(* and "returned" or "threw" after it.                                     *)
(***************************************************************************)
Extract ==
  /\ pc = "ready"
  /\ IF Throws(command)
     THEN pc' = "threw" /\ UNCHANGED executables
     ELSE pc' = "returned" /\ executables' = extractExecutables(command)
  /\ UNCHANGED <<command, second, executablesSecond, executablesJoined, mainVars, rendererVars>>

NoSecond ==
  /\ second = ""
  /\ executablesSecond = <<>>
  /\ executablesJoined = <<>>

Init ==
  /\ command \in GeneralInputs
  /\ executables = <<>>
  /\ pc = "ready"
  /\ NoSecond
  /\ MainNotStarted
  /\ AppMounted

Next == Extract

Spec == Init /\ [][Next]_vars

(***************************************************************************)
(* Properties of the result.                                               *)
(***************************************************************************)
NoDuplicates(list) ==
  \A i, j \in 1..Len(list) : i /= j => list[i] /= list[j]

\* ^[A-Za-z0-9_-]+( [A-Za-z0-9_-]+)?$
MatchesIdentityPattern(e) ==
  LET sp == SkipNot(e, 1, {" "})
  IN  IF sp > Len(e) THEN AllIn(e, NameChar)
      ELSE AllIn(Sub(e, 1, sp - 1), NameChar) /\ AllIn(Sub(e, sp + 1, Len(e)), NameChar)

\* The number of segments from segment k on that contribute an identity.
RECURSIVE IdentityCount(_, _)
IdentityCount(segments, k) ==
  IF k > Len(segments) THEN 0
  ELSE (IF SegmentIdentity(segments[k]) /= "" THEN 1 ELSE 0)
       + IdentityCount(segments, k + 1)

\* C1: whatever the input, the returned list has no two equal entries and
\* every entry is one name, or two names separated by exactly one space.
C1_DistinctWellFormed ==
  pc = "returned" =>
    /\ NoDuplicates(executables)
    /\ \A k \in 1..Len(executables) : MatchesIdentityPattern(executables[k])

\* A call returned a list from which a repeated identity was left out.
C1_Witness ==
  /\ pc = "returned"
  /\ Len(executables) >= 1
  /\ IdentityCount(Segments(Cleaned(command)), 1) > Len(executables)

\* The number of characters of s from index i on that are c.
RECURSIVE Count(_, _, _)
Count(s, c, i) ==
  IF i > Len(s) THEN 0
  ELSE (IF Ch(s, i) = c THEN 1 ELSE 0) + Count(s, c, i + 1)

\* C2: no call ends in an exception: for every input, malformed or not, the
\* call returns.
C2_NeverThrows == pc /= "threw"

\* A call returned the empty list for an input with an unbalanced quote and a
\* heredoc that is never closed.
C2_Witness ==
  /\ pc = "returned"
  /\ executables = <<>>
  /\ Count(command, "\"", 1) % 2 = 1
  /\ FirstOpener(command, 1) <= Len(command)

\* The first index >= i of parts that the scan does not step over, 0 if none.
RECURSIVE FirstSurvivor(_, _)
FirstSurvivor(parts, i) ==
  IF i > Len(parts) THEN 0
  ELSE IF IsSkipped(parts[i]) THEN FirstSurvivor(parts, i + 1)
  ELSE i

\* The identity of a segment when the first surviving part is the only
\* candidate: "" when its basename is not a name.
FirstCandidateIdentity(segment) ==
  LET trimmed == Trim(segment)
      parts == Parts(trimmed)
      k == FirstSurvivor(parts, 1)
      exec == IF k = 0 THEN "" ELSE Basename(parts[k])
  IN  IF ~IsScanned(trimmed) \/ k = 0 \/ ~AllIn(exec, NameChar) THEN ""
      ELSE ExecId([foundExec |-> exec,
                   subcommand |-> IF Contains(SUBCOMMAND_EXECUTABLES, exec)
                                  THEN FindSubcommand(parts, k + 1) ELSE "",
                   threw |-> FALSE])

RECURSIVE FirstCandidateList(_, _, _)
FirstCandidateList(segments, k, list) ==
  IF k > Len(segments) THEN list
  ELSE LET execId == FirstCandidateIdentity(segments[k])
       IN  FirstCandidateList(segments, k + 1,
             IF execId = "" \/ Contains(list, execId) THEN list
             ELSE Append(list, execId))

\* C4: in every segment the first part that survives the skip rules is the
\* only candidate; when its basename is not a name the segment contributes
\* nothing and no later part is reported.
C4_FirstCandidateOnly ==
  pc = "returned" =>
    executables = FirstCandidateList(Segments(Cleaned(command)), 1, <<>>)

\* C6: the loop of the specification's example reports the command of its
\* body and nothing else.
C6_LoopReportsBodyOnly ==
  (pc = "returned" /\ command = ExampleLoop) => executables = <<"cat">>

(***************************************************************************)
(* Heredocs: calls with command lines that open a heredoc.                 *)
(***************************************************************************)
MaxBodyTokens == 4

\* What follows the opener: lines that are a marker, a leading part of a
\* marker, or a command.
BodyTokens == {"\n", "A", "AB", "ls", " "}

\* cat << [space] [quote] marker [quote], then the lines that follow.
OpenerInputs ==
  {"cat <<" \o sp \o q \o marker \o q \o rest :
     sp \in {"", " "}, q \in {"", "'"}, marker \in {"A", "AB"},
     rest \in TokenStrings(BodyTokens, MaxBodyTokens)}

\* A quoted literal that holds << and a word, alone or followed by a command.
QuotedMarkerInputs ==
  {pre \o q \o inner \o q \o post :
     pre \in {"echo ", "git commit -m "}, q \in {"'", "\""},
     inner \in {"<<A", "x << A y", "fix: handles <<EOF markers"},
     post \in {"", " ; ls", "\nls -l", " && rm x"}}

HeredocInputs == OpenerInputs \cup QuotedMarkerInputs \cup Examples

InitHeredoc ==
  /\ command \in HeredocInputs
  /\ executables = <<>>
  /\ pc = "ready"
  /\ NoSecond
  /\ MainNotStarted
  /\ AppMounted

SpecHeredoc == InitHeredoc /\ [][Next]_vars

\* The marker word of the opener at index i: all the word characters there.
MarkerWord(s, i) ==
  LET b == MarkerStart(s, i) IN Sub(s, b, Skip(s, b, WordChar) - 1)

\* The line of s that starts at index p is word, then white space only.
IsMarkerLine(s, p, word) ==
  LET line == Sub(s, p, SkipNot(s, p, {"\n"}) - 1)
  IN  /\ Sub(line, 1, Len(word)) = word
      /\ Skip(line, Len(word) + 1, Space) = Len(line) + 1

\* Some line of s after index i is the marker line of word.
HasMarkerLineAfter(s, i, word) ==
  \E p \in (i + 1)..Len(s) : Ch(s, p) = "\n" /\ IsMarkerLine(s, p + 1, word)

\* C3 (stated for the first opener of the input, which lies in no earlier
\* heredoc): when no later line consists of the opener's marker word alone,
\* nothing from the << on contributes: the result is that of the text before
\* the <<.
C3_UnterminatedDropsRest ==
  LET i == FirstOpener(command, 1)
  IN  (/\ pc = "returned"
       /\ i <= Len(command)
       /\ ~HasMarkerLineAfter(command, i, MarkerWord(command, i)))
      => executables = extractExecutables(Sub(command, 1, i - 1))

\* C5 as written: the example reports the trailing command only.
C5_ExampleTrailingOnly ==
  (pc = "returned" /\ command = ExampleHeredoc) => executables = <<"echo">>

\* C5, amended: the example reports the program the heredoc is fed to and
\* then the trailing command, and no word of the heredoc's body.
C5_ExampleProgramAndTrailing ==
  (pc = "returned" /\ command = ExampleHeredoc)
    => executables = <<"cat", "echo">>

\* The call on the example returned.
C5_Witness ==
  /\ pc = "returned"
  /\ command = ExampleHeredoc
  /\ Len(executables) = 2

(***************************************************************************)
(* Quoting as the shell reads it (no backslash escapes): a quote opens a   *)
(* span that runs to the next quote of the same kind, and a quote of       *)
(* another kind inside it is an ordinary character.                        *)
(***************************************************************************)
\* The three kinds of quote: double, single and back-tick.
ShellQuote == Quote \cup {BackTick}

\* s from index i on with the content of every closed span removed.
RECURSIVE ShellEmptiedFrom(_, _)
ShellEmptiedFrom(s, i) ==
  IF i > Len(s) THEN ""
  ELSE IF Ch(s, i) \in ShellQuote
  THEN LET j == SkipNot(s, i + 1, {Ch(s, i)})
       IN  IF j <= Len(s) THEN Ch(s, i) \o Ch(s, i) \o ShellEmptiedFrom(s, j + 1)
           ELSE Sub(s, i, Len(s))
  ELSE Ch(s, i) \o ShellEmptiedFrom(s, i + 1)

ShellEmptied(s) == ShellEmptiedFrom(s, 1)

\* Every span of s from index i on is closed.
RECURSIVE BalancedFrom(_, _)
BalancedFrom(s, i) ==
  IF i > Len(s) THEN TRUE
  ELSE IF Ch(s, i) \in ShellQuote
  THEN LET j == SkipNot(s, i + 1, {Ch(s, i)})
       IN  j <= Len(s) /\ BalancedFrom(s, j + 1)
  ELSE BalancedFrom(s, i + 1)

Balanced(s) == BalancedFrom(s, 1)

\* Some closed span of s from index i on holds a quote of the other kind.
RECURSIVE NestedQuoteFrom(_, _)
NestedQuoteFrom(s, i) ==
  IF i > Len(s) THEN FALSE
  ELSE IF Ch(s, i) \in ShellQuote
  THEN LET j == SkipNot(s, i + 1, {Ch(s, i)})
       IN  /\ j <= Len(s)
           /\ \/ SkipNot(s, i + 1, ShellQuote) < j
              \/ NestedQuoteFrom(s, j + 1)
  ELSE NestedQuoteFrom(s, i + 1)

NestedQuote(s) == NestedQuoteFrom(s, 1)

\* Some closed span of s from index i on holds a heredoc opener.
RECURSIVE OpenerInSpanFrom(_, _)
OpenerInSpanFrom(s, i) ==
  IF i > Len(s) THEN FALSE
  ELSE IF Ch(s, i) \in ShellQuote
  THEN LET j == SkipNot(s, i + 1, {Ch(s, i)})
           content == Sub(s, i + 1, j - 1)
       IN  /\ j <= Len(s)
           /\ \/ FirstOpener(content, 1) <= Len(content)
              \/ OpenerInSpanFrom(s, j + 1)
  ELSE OpenerInSpanFrom(s, i + 1)

HasOpener(s) == FirstOpener(s, 1) <= Len(s)

\* C8: a << and a word inside a quoted literal start no heredoc: the literal
\* is emptied and the text after its closing quote is processed as usual, so
\* the result is that of the command with its literals emptied.
C8_QuotedMarkerIsNoHeredoc ==
  (/\ pc = "returned"
   /\ Balanced(command)
   /\ OpenerInSpanFrom(command, 1)
   /\ ~HasOpener(ShellEmptied(command)))
  => executables = extractExecutables(ShellEmptied(command))

(***************************************************************************)
(* Quoting: calls with command lines made of words, separators and quoted  *)
(* spans.                                                                  *)
(***************************************************************************)
MaxQuoteItems == 3

\* A word, white space, a separator, a lone quote, spans that hold a quote of
\* another kind, spans of the three kinds that hold a command between
\* separators, a heredoc opener and a span that holds its marker line.
QuoteItems ==
  {"ls", " ", ";", "\"", "'\"'", "\"'\"", "\";rm;\"", "';rm;'", "\"rm\"",
   "`;rm;`", "'`'", "<<A", "\"\nA\n;rm;\""}

QuoteInputs == TokenStrings(QuoteItems, MaxQuoteItems) \cup Examples

InitQuote ==
  /\ command \in QuoteInputs
  /\ executables = <<>>
  /\ pc = "ready"
  /\ NoSecond
  /\ MainNotStarted
  /\ AppMounted

SpecQuote == InitQuote /\ [][Next]_vars

\* Every identity of the result is one the command yields with its spans
\* emptied: no word from inside a span is reported, and no separator inside a
\* span has cut a segment.
NothingFromSpans ==
  LET outside == extractExecutables(ShellEmptied(command))
  IN  \A k \in 1..Len(executables) : Contains(outside, executables[k])

\* C9 as written (stated for the command lines with no heredoc opener): for
\* every command line whose quoted spans are balanced, a word inside a span is
\* never reported and a separator inside a span never starts a segment.
C9_BalancedSpansAreInert ==
  (pc = "returned" /\ Balanced(command) /\ ~HasOpener(command))
    => NothingFromSpans

\* C9, amended: the same, for the command lines that hold no backslash and no
\* heredoc opener and in which no span holds a quote of another kind.
C9_PlainSpansAreInert ==
  (/\ pc = "returned"
   /\ Balanced(command)
   /\ ~NestedQuote(command)
   /\ ~HasOpener(command)
   /\ ~Includes(command, "\\"))
  => NothingFromSpans

\* A call returned for a command with a span that holds a command between
\* separators, next to a command outside any span.
C9_Witness ==
  /\ pc = "returned"
  /\ Balanced(command)
  /\ ~NestedQuote(command)
  /\ ~HasOpener(command)
  /\ command /= ShellEmptied(command)
  /\ Len(Segments(command)) > Len(Segments(ShellEmptied(command)))
  /\ executables = <<"ls">>

(***************************************************************************)
(* Redirections: calls with one segment of words and redirections.         *)
(***************************************************************************)
MaxWords == 3

RedirectWords == {"cmd", "-v", "2>&1", ">&2", "2>out", "2>>out", "2>1f"}

\* The first k strings of a sequence, joined by single spaces.
RECURSIVE JoinTo(_, _)
JoinTo(strings, k) ==
  IF k = 0 THEN ""
  ELSE IF k = 1 THEN strings[1]
  ELSE JoinTo(strings, k - 1) \o " " \o strings[k]

RedirectInputs ==
  {JoinTo(ws, Len(ws)) : ws \in UNION {[1..k -> RedirectWords] : k \in 0..MaxWords}}
    \cup Examples

InitRedirect ==
  /\ command \in RedirectInputs
  /\ executables = <<>>
  /\ pc = "ready"
  /\ NoSecond
  /\ MainNotStarted
  /\ AppMounted

SpecRedirect == InitRedirect /\ [][Next]_vars

\* A file name: characters that are neither white space nor shell operators.
IsTarget(s) == AllIn(s, NameChar \cup {"/", "."})

\* N>&M, >&M, N>target or N>>target.
IsRedirection(word) ==
  LET g == Skip(word, 1, Digit)
  IN  \/ Sub(word, g, g + 1) = ">&" /\ AllIn(Sub(word, g + 2, Len(word)), Digit)
      \/ g > 1 /\ Sub(word, g, g + 1) = ">>" /\ IsTarget(Sub(word, g + 2, Len(word)))
      \/ g > 1 /\ Ch(word, g) = ">" /\ IsTarget(Sub(word, g + 1, Len(word)))

\* The sequence without its k-th element.
Without(seq, k) == SubSeq(seq, 1, k - 1) \o SubSeq(seq, k + 1, Len(seq))

HasSeparator(s) == SkipNot(s, 1, Separator) <= Len(s)

\* C10: in a segment, a file-descriptor duplication or an output redirection
\* with its target, wherever it stands, changes nothing: the segment's
\* identity is that of the segment with the redirection removed.
C10_RedirectionIsInert ==
  (pc = "returned" /\ ~HasSeparator(command)) =>
    LET parts == Parts(Trim(command))
    IN  \A k \in 1..Len(parts) :
          IsRedirection(parts[k]) =>
            executables =
              extractExecutables(JoinTo(Without(parts, k), Len(parts) - 1))

(***************************************************************************)
(* Two commands, and the two joined by a semicolon.                        *)
(***************************************************************************)
MaxPairTokens == 3

PairTokens == {"ls", "git", " ", "\"", BackTick, "<<A", "2>x"}

FirstInputs == TokenStrings(PairTokens, MaxPairTokens)

SecondInputs ==
  {"", "ls", "git ls", "rm x", "\";rm", "x ; rm " \o BackTick, "x\nA\nrm"}

ExtractSecond ==
  /\ pc = "returned"
  /\ IF Throws(second)
     THEN pc' = "threw" /\ UNCHANGED executablesSecond
     ELSE pc' = "returnedSecond" /\ executablesSecond' = extractExecutables(second)
  /\ UNCHANGED <<command, second, executables, executablesJoined, mainVars, rendererVars>>

ExtractJoined ==
  /\ pc = "returnedSecond"
  /\ IF Throws(command \o ";" \o second)
     THEN pc' = "threw" /\ UNCHANGED executablesJoined
     ELSE /\ pc' = "returnedJoined"
          /\ executablesJoined' = extractExecutables(command \o ";" \o second)
  /\ UNCHANGED <<command, second, executables, executablesSecond, mainVars,
               rendererVars>>

InitPair ==
  /\ command \in FirstInputs
  /\ second \in SecondInputs
  /\ executables = <<>>
  /\ executablesSecond = <<>>
  /\ executablesJoined = <<>>
  /\ pc = "ready"
  /\ MainNotStarted
  /\ AppMounted

NextPair == Extract \/ ExtractSecond \/ ExtractJoined

SpecPair == InitPair /\ [][NextPair]_vars

\* The list with every entry that repeats an earlier one removed.
RECURSIVE FirstSeen(_, _, _)
FirstSeen(list, k, seen) ==
  IF k > Len(list) THEN seen
  ELSE FirstSeen(list, k + 1,
                 IF Contains(seen, list[k]) THEN seen ELSE Append(seen, list[k]))

\* The result for a;b is the results for a and for b, one after the other,
\* later duplicates removed.
JoinedIsUnion ==
  executablesJoined = FirstSeen(executables \o executablesSecond, 1, <<>>)

\* A digit of s is directly followed by ">".
HasNumberedRedirection(s) ==
  \E i \in 1..Len(s) : Ch(s, i) \in Digit /\ Ch(s, i + 1) = ">"

\* s holds one of the three quote characters lines 28-30 pair: a double
\* quote, a single quote or a back-tick.
HasQuote(s) == SkipNot(s, 1, ShellQuote) <= Len(s)

\* C7 as written (stated for the a that hold no quote character and no
\* numbered redirection): for all command strings a and b.
C7_JoinIsUnion ==
  (/\ pc = "returnedJoined"
   /\ ~HasQuote(command)
   /\ ~HasNumberedRedirection(command))
  => JoinedIsUnion

\* C7, amended: for all b, and all a that hold no heredoc opener, none of the
\* three quote characters (double quote, single quote, back-tick) and no
\* digit directly followed by ">".
C7_JoinIsUnionOfClosed ==
  (/\ pc = "returnedJoined"
   /\ ~HasOpener(command)
   /\ ~HasQuote(command)
   /\ ~HasNumberedRedirection(command))
  => JoinedIsUnion

\* The three calls returned, both commands contributed, and an identity of
\* the second was left out of the joined result as a duplicate.
C7_Witness ==
  /\ pc = "returnedJoined"
  /\ ~HasOpener(command)
  /\ ~HasQuote(command)
  /\ ~HasNumberedRedirection(command)
  /\ Len(executables) >= 1
  /\ Len(executablesSecond) >= 1
  /\ Len(executablesJoined) < Len(executables) + Len(executablesSecond)

(***************************************************************************)
(* Terminated heredocs: an opener line, body lines, the marker on a line   *)
(* of its own, and the lines after it.                                     *)
(***************************************************************************)
MaxBodyItems == 3

\* The lines after the terminator line: none, commands, and a second heredoc.
AfterLines == {"", "\nls", "\ngit ls\nrm x", "\nwc <<A\nrm"}

\* cat << [quote] marker [quote], a body, the marker line, the lines after.
\* A body may itself hold a marker line, which then is the first one.
TerminatedInputs ==
  {"cat <<" \o q \o marker \o q \o "\n" \o body \o "\n" \o marker \o ws \o after :
     q \in {"", "'"}, marker \in {"A", "AB"},
     body \in TokenStrings(BodyTokens, MaxBodyItems),
     ws \in {"", " "}, after \in AfterLines}

InitTerminated ==
  /\ command \in TerminatedInputs \cup Examples
  /\ executables = <<>>
  /\ pc = "ready"
  /\ NoSecond
  /\ MainNotStarted
  /\ AppMounted

SpecTerminated == InitTerminated /\ [][Next]_vars

\* The index of the newline in front of the first marker line of word at or
\* after index p, 0 if there is none.
RECURSIVE FirstMarkerLine(_, _, _)
FirstMarkerLine(s, p, word) ==
  IF p > Len(s) THEN 0
  ELSE IF Ch(s, p) = "\n" /\ IsMarkerLine(s, p + 1, word) THEN p
  ELSE FirstMarkerLine(s, p + 1, word)

\* The opener at index i ends its line: after the marker word come at most
\* the closing quote and white space.
OpenerEndsLine(s, i) ==
  LET e == Skip(s, MarkerStart(s, i), WordChar)
      a == IF Ch(s, e) \in Quote THEN e + 1 ELSE e
  IN  Ch(s, Skip(s, a, Space \ {"\n"})) = "\n"

\* The first opener of the input, when it ends its line and a later line is
\* its marker word alone.
TerminatedHeredoc ==
  LET i == FirstOpener(command, 1)
  IN  /\ i <= Len(command)
      /\ OpenerEndsLine(command, i)
      /\ FirstMarkerLine(command, i + 1, MarkerWord(command, i)) /= 0

\* The text after the first marker line of the first opener.
AfterTerminator ==
  LET i == FirstOpener(command, 1)
      p == FirstMarkerLine(command, i + 1, MarkerWord(command, i))
  IN  Sub(command, SkipNot(command, p + 1, {"\n"}), Len(command))

\* C11: a heredoc whose opener is followed by a line that is its marker word
\* alone ends at the first such line: the result is what the text before the
\* << gives, then what the lines after that marker line give when extracted
\* on their own (later duplicates dropped), and nothing from the body.
C11_TerminatedHeredocEndsAtFirstMarkerLine ==
  (pc = "returned" /\ TerminatedHeredoc)
  => executables =
       FirstSeen(extractExecutables(Sub(command, 1, FirstOpener(command, 1) - 1))
                   \o extractExecutables(AfterTerminator), 1, <<>>)

\* A call returned on a heredoc whose body holds a command and whose marker
\* line comes twice, with a command reported from between the two.
C11_Witness ==
  /\ pc = "returned"
  /\ command = "cat <<A\nA\nls\nA\ngit ls\nrm x"
  /\ TerminatedHeredoc
  /\ executables = <<"cat", "ls", "git ls", "rm">>

(***************************************************************************)
(* The parts stepped over: one segment whose first part is any of the      *)
(* words the scan knows, or a word close to one, followed by a few parts.  *)
(***************************************************************************)
MaxLaterParts == 2

\* The words and forms the scan is said to step over, as the specification
\* lists them.
ListedPrefixes == {"sudo", "env", "nohup", "nice", "time", "command"}

ListedBuiltins == {"true", "false"}

ListedKeywords ==
  {"for", "in", "do", "done", "while", "until", "if", "then", "else", "elif",
   "fi", "case", "esac", "select"}

ListedSkip(part) ==
  \/ Includes(part, "=") /\ ~StartsWith(part, "-")
  \/ StartsWith(part, "-")
  \/ part \in ListedPrefixes \cup ListedBuiltins \cup ListedKeywords
  \/ part = ""
  \/ AllIn(part, {"<", ">", "|", "&", ";", "(", ")"})
  \/ StartsWith(part, ">")
  \/ StartsWith(part, "<")

\* Every listed word, every listed form, and words that are on no list.
FirstParts ==
  ListedPrefixes \cup ListedBuiltins \cup ListedKeywords
    \cup {"X=1", "-v", "--a=b", "(", "()", ">", ">x", "<in"}
    \cup {"ls", "exec", "eval", "test", "doas", "sudoedit", "Do", "timeout",
          "./a.b", "/bin/sh"}

LaterParts == {" ls", " sudo", " -v", " X=1", " done", " ./a.b"}

SkipInputs ==
  {first \o rest : first \in FirstParts,
                   rest \in TokenStrings(LaterParts, MaxLaterParts)}

InitSkip ==
  /\ command \in SkipInputs \cup Examples
  /\ executables = <<>>
  /\ pc = "ready"
  /\ NoSecond
  /\ MainNotStarted
  /\ AppMounted

SpecSkip == InitSkip /\ [][Next]_vars

\* The index of the first part from k on that the lists do not cover, 0 if
\* there is none.
RECURSIVE FirstUnlisted(_, _)
FirstUnlisted(parts, k) ==
  IF k > Len(parts) THEN 0
  ELSE IF ~ListedSkip(parts[k]) THEN k
  ELSE FirstUnlisted(parts, k + 1)

\* The executable word of an identity: the text before its space, if any.
ExecutableWord(execId) == Sub(execId, 1, SkipNot(execId, 1, {" "}) - 1)

\* The command is one segment that the cleaning steps leave as it is and that
\* the upper-case rule does not drop.
IsPlainSegment(s) ==
  /\ ~HasSeparator(s)
  /\ Cleaned(s) = s
  /\ ~AllIn(Trim(s), Upper)

\* C12: in a segment the candidate executable is the first part that is none
\* of the listed forms and words, and nothing else is stepped over: when every
\* part is listed the segment reports nothing, and otherwise, when the first
\* unlisted part has a valid basename, that basename is the executable word
\* of the one identity reported.
C12_FirstUnlistedPartIsCandidate ==
  (pc = "returned" /\ IsPlainSegment(command))
  => LET parts == Parts(Trim(command))
         k == FirstUnlisted(parts, 1)
     IN  IF k = 0 THEN executables = <<>>
         ELSE IsName(Basename(parts[k]))
                => /\ Len(executables) = 1
                   /\ ExecutableWord(executables[1]) = Basename(parts[k])

\* A call returned on a segment whose executable follows a prefix and an
\* assignment.
C12_Witness ==
  /\ pc = "returned"
  /\ command = "time X=1 ls"
  /\ IsPlainSegment(command)
  /\ executables = <<"ls">>

(***************************************************************************)
(* Sub-commands: one segment with an executable, sub-command aware or not, *)
(* bare or behind a prefix or a path, followed by a few parts.             *)
(***************************************************************************)
MaxSubParts == 3

\* The executables whose identity takes a sub-command, as the specification
\* lists them.
SubcommandAware == {"git", "npm", "yarn", "pnpm", "docker", "kubectl"}

SubParts == {" -a", " X=1", " ps", " ./x", " sudo"}

SubcommandInputs ==
  {lead \o exec \o rest :
     lead \in {"", "sudo "},
     exec \in SubcommandAware \cup {"ls", "gitk", "/usr/bin/git"},
     rest \in TokenStrings(SubParts, MaxSubParts)}

InitSubcommand ==
  /\ command \in SubcommandInputs \cup Examples
  /\ executables = <<>>
  /\ pc = "ready"
  /\ NoSecond
  /\ MainNotStarted
  /\ AppMounted

SpecSubcommand == InitSubcommand /\ [][Next]_vars

\* The index of the first part from j on that neither starts with "-" nor
\* holds "=", 0 if there is none.
RECURSIVE FirstPlainPart(_, _)
FirstPlainPart(parts, j) ==
  IF j > Len(parts) THEN 0
  ELSE IF ~StartsWith(parts[j], "-") /\ ~Includes(parts[j], "=") THEN j
  ELSE FirstPlainPart(parts, j + 1)

\* The identity the specification gives the executable that is part k.
ExpectedIdentity(parts, k) ==
  LET exec == Basename(parts[k])
      n == FirstPlainPart(parts, k + 1)
  IN  IF exec \in SubcommandAware /\ n /= 0 /\ IsName(parts[n])
      THEN exec \o " " \o parts[n]
      ELSE exec

\* C13: the identity is "<executable> <sub-command>" exactly when the
\* executable's basename is one of the six sub-command aware ones and the
\* first part after it that neither starts with "-" nor holds "=" is a name;
\* in every other case it is the bare executable.
C13_CompoundIdentity ==
  (pc = "returned" /\ IsPlainSegment(command))
  => LET parts == Parts(Trim(command))
         k == FirstUnlisted(parts, 1)
     IN  (k /= 0 /\ IsName(Basename(parts[k])))
           => executables = <<ExpectedIdentity(parts, k)>>

\* The call on the specification's example returned the compound identity.
C13_Witness ==
  /\ pc = "returned"
  /\ command = ExampleDocker
  /\ IsPlainSegment(command)
  /\ executables = <<"docker ps">>

(***************************************************************************)
(* Command lines: simple commands joined by the shell's separators.        *)
(***************************************************************************)
MaxJoined == 2

SimpleCommands == {"ls -l /t", "git", "npm run b"}

Joiners == {";", "&", " && ", "|", " || ", "\n"}

\* A simple command, then up to n times a joiner and a simple command.
RECURSIVE JoinedTo(_)
JoinedTo(n) ==
  IF n = 0 THEN SimpleCommands
  ELSE LET shorter == JoinedTo(n - 1)
       IN  shorter \cup {a \o j \o c : a \in shorter, j \in Joiners,
                                       c \in SimpleCommands}

InitJoined ==
  /\ command \in JoinedTo(MaxJoined) \cup Examples
  /\ executables = <<>>
  /\ pc = "ready"
  /\ NoSecond
  /\ MainNotStarted
  /\ AppMounted

SpecJoined == InitJoined /\ [][Next]_vars

\* The separators as the specification lists them, and the pieces of a
\* command line between runs of them.
ShellSeparators == {";", "&", "|", "\n"}

Pieces(s) == SplitFrom(s, 1, ShellSeparators, "")

\* A piece is a simple command: a valid name that no list covers, followed by
\* anything, and not one upper-case word alone.
IsSimpleCommand(piece) ==
  LET parts == Parts(Trim(piece))
  IN  /\ IsName(parts[1])
      /\ ~ListedSkip(parts[1])
      /\ ~AllIn(Trim(piece), Upper)

\* The characters of names, flags and paths.
PlainChars == NameChar \cup {" ", "/", "."}

\* The line holds nothing but plain characters and separators, and every
\* piece of it is blank or a simple command.
IsSimpleLine(s) ==
  LET pieces == Pieces(s)
  IN  /\ s = "" \/ AllIn(s, PlainChars \cup ShellSeparators)
      /\ \A k \in 1..Len(pieces) :
           Trim(pieces[k]) = "" \/ IsSimpleCommand(pieces[k])

\* The identities of the pieces from the k-th on, in order.
RECURSIVE SimpleIdentities(_, _)
SimpleIdentities(pieces, k) ==
  IF k > Len(pieces) THEN <<>>
  ELSE IF Trim(pieces[k]) = "" THEN SimpleIdentities(pieces, k + 1)
  ELSE <<ExpectedIdentity(Parts(Trim(pieces[k])), 1)>>
         \o SimpleIdentities(pieces, k + 1)

\* The result for a line of simple commands is the list of the commands'
\* identities, one per command, in order, later duplicates removed.
C14_SimpleCommandsInOrder ==
  (pc = "returned" /\ IsSimpleLine(command))
  => executables = FirstSeen(SimpleIdentities(Pieces(command), 1), 1, <<>>)

\* The specification's two examples.
C14_Examples ==
  /\ (pc = "returned" /\ command = ExampleList) => executables = <<"ls">>
  /\ (pc = "returned" /\ command = ExampleBuild)
       => executables = <<"echo", "npm run">>

\* C14: the text is split on every run of ; & | and newline and each segment
\* gives at most one identity: for simple commands joined by ; & && | || and
\* newlines the result is the list of the commands' identities in order,
\* later duplicates removed, and no flag and no argument is reported;
\* "ls -la /tmp" gives ls, and "echo hello && npm run build" gives echo and
\* "npm run".
C14_SplitOnSeparators == C14_SimpleCommandsInOrder /\ C14_Examples

\* A call returned on three commands joined by two different separators, the
\* third repeating the first.
C14_Witness ==
  /\ pc = "returned"
  /\ command = "ls -l /t|npm run b && ls -l /t"
  /\ IsSimpleLine(command)
  /\ executables = <<"ls", "npm run">>

(***************************************************************************)
(* Order and duplicates: segments that repeat identities and that share an *)
(* executable, joined by semicolons.                                       *)
(***************************************************************************)
MaxSegments == 4

OrderSegments == {"ls", "git", "git ls", "git rm", "rm"}

\* One to n segments.
RECURSIVE SegmentsTo(_)
SegmentsTo(n) ==
  IF n = 1 THEN OrderSegments
  ELSE LET shorter == SegmentsTo(n - 1)
       IN  shorter \cup {a \o ";" \o c : a \in shorter, c \in OrderSegments}

InitOrder ==
  /\ command \in SegmentsTo(MaxSegments) \cup Examples
  /\ executables = <<>>
  /\ pc = "ready"
  /\ NoSecond
  /\ MainNotStarted
  /\ AppMounted

SpecOrder == InitOrder /\ [][Next]_vars

\* The identities that the segments from the k-th on produce, in order.
RECURSIVE ProducedIdentities(_, _)
ProducedIdentities(segments, k) ==
  IF k > Len(segments) THEN <<>>
  ELSE IF SegmentIdentity(segments[k]) = ""
  THEN ProducedIdentities(segments, k + 1)
  ELSE <<SegmentIdentity(segments[k])>> \o ProducedIdentities(segments, k + 1)

\* C15: the result lists the identities in the order of the first segment
\* that produces each; a later duplicate is neither appended nor moves the
\* earlier entry; identities are compared as whole strings, so "git" and
\* "git ls" are both kept.
C15_FirstProducerOrder ==
  /\ pc = "returned"
       => executables =
            FirstSeen(ProducedIdentities(Segments(Cleaned(command)), 1), 1, <<>>)
  /\ (pc = "returned" /\ command = "git;git ls;git")
       => executables = <<"git", "git ls">>

\* A call returned on four segments: a bare executable, the same with a
\* sub-command, another executable, and the first one again.
C15_Witness ==
  /\ pc = "returned"
  /\ command = "git;git ls;rm;git"
  /\ executables = <<"git", "git ls", "rm">>

(***************************************************************************)
(* Paths: one segment whose first part is a path prefix and a name.        *)
(***************************************************************************)
MaxPathParts == 2

PathPrefixes == {"/", "./", "/usr/bin/", "a/b/"}

\* Names on no list, a sub-command aware one, and names on the skip lists.
PathNames == {"ls", "git", "x-1", "sudo", "time", "do"}

PathParts == {" -a", " rm", " X=1"}

PathInputs ==
  {prefix \o name \o rest :
     prefix \in PathPrefixes, name \in PathNames,
     rest \in TokenStrings(PathParts, MaxPathParts)}

InitPath ==
  /\ command \in PathInputs \cup Examples
  /\ executables = <<>>
  /\ pc = "ready"
  /\ NoSecond
  /\ MainNotStarted
  /\ AppMounted

SpecPath == InitPath /\ [][Next]_vars

\* The first white-space separated part of s, s starting with it.
FirstPart(s) == Sub(s, 1, SkipNot(s, 1, Space) - 1)

\* The part is a path prefix ending in "/" followed by a valid name.
IsPathToName(part) ==
  LET cut == LastSlash(part, Len(part))
  IN  /\ cut >= 1
      /\ AllIn(Sub(part, 1, cut), NameChar \cup {"/", "."})
      /\ ~StartsWith(part, "-")
      /\ IsName(Basename(part))

\* C16: a segment that starts with a path prefix followed by a valid name
\* yields what the segment without the path prefix yields, and no identity
\* holds "/".
C16_PathPrefixIsInert ==
  (pc = "returned" /\ IsPlainSegment(command) /\ IsPathToName(FirstPart(command)))
  => /\ executables =
          extractExecutables(Basename(FirstPart(command))
                               \o Sub(command, Len(FirstPart(command)) + 1,
                                      Len(command)))
     /\ \A k \in 1..Len(executables) : ~Includes(executables[k], "/")

(***************************************************************************)
(* Blank inputs: white space and separators, with and without a command.   *)
(***************************************************************************)
MaxBlankTokens == 4

\* White space (the second token is the vertical tab U+000B), the
\* separators and a word.
BlankTokens == {" ", "", ";", "&", "|", "\n", "ls"}

InitBlank ==
  /\ command \in TokenStrings(BlankTokens, MaxBlankTokens) \cup Examples
  /\ executables = <<>>
  /\ pc = "ready"
  /\ NoSecond
  /\ MainNotStarted
  /\ AppMounted

SpecBlank == InitBlank /\ [][Next]_vars

\* The input is empty or holds white space and separators only.
IsBlank(s) == s = "" \/ AllIn(s, Space \cup ShellSeparators)

\* C18: the empty string, and every input made only of white space and the
\* separators ; & | and newline, gives the empty list.
C18_BlankGivesNothing ==
  (pc = "returned" /\ IsBlank(command)) => executables = <<>>

\* A call returned on an input of a space, two separators and a newline.
C18_Witness ==
  /\ pc = "returned"
  /\ command = " ;&\n"
  /\ IsBlank(command)
  /\ executables = <<>>

(***************************************************************************)
(* Upper-case words: one segment of upper-case words, other names and      *)
(* flags.                                                                  *)
(***************************************************************************)
MaxUpperTokens == 3

UpperTokens == {"A", "LS", "a", "1", "_", " ", " -v"}

InitUpper ==
  /\ command \in TokenStrings(UpperTokens, MaxUpperTokens) \cup Examples
  /\ executables = <<>>
  /\ pc = "ready"
  /\ NoSecond
  /\ MainNotStarted
  /\ AppMounted

SpecUpper == InitUpper /\ [][Next]_vars

\* C20: a segment that, trimmed, is upper-case letters only contributes
\* nothing; any other segment is scanned as usual, so one whose first word is
\* a name on no list, upper-case or not, reports that word.
C20_UpperCaseWordAlone ==
  (pc = "returned" /\ AllIn(command, NameChar \cup {" "}))
  => LET trimmed == Trim(command)
         first == FirstPart(trimmed)
     IN  IF trimmed = "" \/ AllIn(trimmed, Upper) THEN executables = <<>>
         ELSE (IsName(first) /\ ~ListedSkip(first))
                => /\ Len(executables) = 1
                   /\ ExecutableWord(executables[1]) = first

\* A call returned on a segment that is one upper-case word between spaces.
C20_Witness ==
  /\ pc = "returned"
  /\ command = " LS "
  /\ executables = <<>>

(***************************************************************************)
(* src/main/main.ts: the main process.  It is started, reads the model     *)
(* setting and opens a window; every window that has loaded calls          *)
(* initCopilot, which creates a client and a session; the process serves   *)
(* the requests of the renderer and the shutdown events, and ends.  The    *)
(* events are Electron's: the model lets each arrive whenever the process  *)
(* runs.                                                                   *)
(***************************************************************************)
MaxLaunches == 2

MaxCalls == 2

\* How many windows a run opens, and how many shutdown events it handles.
MaxWindows == 2

MaxShutdowns == 2

\* The list with a fifth model on it.
AvailableModelsAndGpt4 ==
  <<"gpt-5", "claude-sonnet-4.5", "claude-sonnet-4", "gpt-4.1", "gpt-4">>

\* Lines 17-22.
AVAILABLE_MODELS ==
  <<"gpt-5", "claude-sonnet-4.5", "claude-sonnet-4", "gpt-4.1">>

\* Lines 7-9: the defaults of the settings file.
defaults == {<<"model", "gpt-5">>}

\* The value paired with key.
Lookup(pairs, key) == (CHOOSE kv \in pairs : kv[1] = key)[2]

\* store.get(key) on the settings st: the stored value, else the default.
StoreGet(st, key) ==
  IF \E kv \in st : kv[1] = key THEN Lookup(st, key) ELSE Lookup(defaults, key)

\* A set that writes nothing.
StoreSetNothing(st, key, value) == st

\* store.set(key, value) on the settings st.
StoreSet(st, key, value) ==
  {kv \in st : kv[1] /= key} \cup {<<key, value>>}

\* The models a renderer may ask for: the four of the list and one that is
\* not on it.
RequestedModels ==
  {"gpt-5", "claude-sonnet-4.5", "claude-sonnet-4", "gpt-4.1", "gpt-4"}

\* Line 27: a client object of the SDK; start() is called on it next.
NewClient == [state |-> "starting", stopCalls |-> 0]

\* copilotClient.stop() called on the i-th client object.
Stop(objects, i) == [objects EXCEPT ![i].stopCalls = @ + 1]

\* A session object of the SDK, created with the model by the function by;
\* destroy() was not called on it yet.
NewSession(model, by) ==
  [model |-> model, by |-> by, destroyed |-> FALSE, destroyCalls |-> 0]

\* session.destroy() called on the i-th session object.
Destroy(objects, i) ==
  [objects EXCEPT ![i].destroyed = TRUE, ![i].destroyCalls = @ + 1]

\* An activation of initCopilot: where it is ("start", "create": at the
\* await of that call), the model it passed to createSession and the client
\* it created.
Activation(at, model, client) ==
  [pc |-> at, model |-> model, client |-> client]

\* A call of a handler: its argument, where it is ("destroy", "create",
\* "send", "stop": at the await of that call), the model it passed to
\* createSession, what it returned, the error it threw, and the session
\* object it called send on (0 for none).
HandlerCall(handler, model, at, creating, result, error, target) ==
  [handler |-> handler, model |-> model, pc |-> at, creating |-> creating,
   result |-> result, error |-> error, target |-> target]

\* A call of the copilot:setModel handler.
SetModelHandler(model, at, creating, result, error) ==
  HandlerCall("copilot:setModel", model, at, creating, result, error, 0)

\* The two handlers that pass a prompt to the session.
SendHandlers == {"copilot:send", "copilot:sendAndWait"}

\* The two handlers of the application's shutdown events.
ShutdownHandlers == {"window-all-closed", "before-quit"}

\* Lines 6-15: the process starts and the module is evaluated; the
\* module-level variables take their initial values.  No window exists yet.
Launch ==
  /\ app = "off"
  /\ launches < MaxLaunches
  /\ app' = "starting"
  /\ launches' = launches + 1
  /\ currentModel' = StoreGet(store, "model")
  /\ windows' = <<>>
  /\ mainWindow' = 0
  /\ copilotClient' = 0
  /\ clients' = <<>>
  /\ session' = 0
  /\ sessions' = <<>>
  /\ initCopilot' = <<>>
  /\ handlers' = <<>>
  /\ quitCalls' = 0
  /\ UNCHANGED <<store, extractorVars, rendererVars>>

\* Lines 234-241 and 73-115: the application is ready; the first window is
\* created and the listener of 'activate' is registered.
WhenReady ==
  /\ app = "starting"
  /\ app' = "running"
  /\ windows' = Append(windows, "loading")
  /\ mainWindow' = Len(windows) + 1
  /\ UNCHANGED <<store, launches, currentModel, copilotClient, clients,
                 session, sessions, initCopilot, handlers, quitCalls,
                 extractorVars, rendererVars>>

\* Lines 237-241 and 73-115: the application is activated; with no window
\* open a window is created.
Activate ==
  /\ app = "running"
  /\ Len(windows) < MaxWindows
  /\ IF \A w \in 1..Len(windows) : windows[w] = "closed"
     THEN /\ windows' = Append(windows, "loading")
          /\ mainWindow' = Len(windows) + 1
     ELSE UNCHANGED <<windows, mainWindow>>
  /\ UNCHANGED <<store, app, launches, currentModel, copilotClient, clients,
                 session, sessions, initCopilot, handlers, quitCalls,
                 extractorVars, rendererVars>>

\* Lines 112-114: the window w is closed.
WindowClosed(w) ==
  /\ app = "running"
  /\ w \in 1..Len(windows)
  /\ windows[w] /= "closed"
  /\ windows' = [windows EXCEPT ![w] = "closed"]
  /\ mainWindow' = 0
  /\ UNCHANGED <<store, app, launches, currentModel, copilotClient, clients,
                 session, sessions, initCopilot, handlers, quitCalls,
                 extractorVars, rendererVars>>

\* Lines 108-110 and 25-28: the window w has loaded; initCopilot creates a
\* client, assigns it to copilotClient, calls start and awaits it.
InitCopilotCall(w) ==
  /\ app = "running"
  /\ w \in 1..Len(windows)
  /\ windows[w] = "loading"
  /\ windows' = [windows EXCEPT ![w] = "loaded"]
  /\ clients' = Append(clients, NewClient)
  /\ copilotClient' = Len(clients) + 1
  /\ initCopilot' = Append(initCopilot, Activation("start", "", Len(clients) + 1))
  /\ UNCHANGED <<store, app, launches, currentModel, mainWindow, session,
                 sessions, handlers, quitCalls, extractorVars, rendererVars>>

\* Lines 28-33 and 65-70: start has resolved and createSession is called
\* with currentModel on the client copilotClient refers to now, or start has
\* rejected.  When copilotClient was set to null in between, line 31 throws
\* and the catch of line 65 ends the function.
InitCopilotStarted(a) ==
  /\ app = "running"
  /\ a \in 1..Len(initCopilot)
  /\ initCopilot[a].pc = "start"
  /\ \/ /\ clients' = [clients EXCEPT ![initCopilot[a].client].state = "started"]
        /\ initCopilot' =
             [initCopilot EXCEPT ![a] =
                IF copilotClient = 0
                THEN [@ EXCEPT !.pc = "failed"]
                ELSE [@ EXCEPT !.pc = "create", !.model = currentModel]]
     \/ /\ clients' = [clients EXCEPT ![initCopilot[a].client].state = "failed"]
        /\ initCopilot' = [initCopilot EXCEPT ![a].pc = "failed"]
  /\ UNCHANGED <<store, app, launches, currentModel, windows, mainWindow,
                 copilotClient, session, sessions, handlers, quitCalls,
                 extractorVars, rendererVars>>

\* Lines 31-64 and 65-70: createSession has resolved and session is assigned,
\* or it has rejected.
InitCopilotCreated(a) ==
  /\ app = "running"
  /\ a \in 1..Len(initCopilot)
  /\ initCopilot[a].pc = "create"
  /\ \/ /\ sessions' = Append(sessions,
                              NewSession(initCopilot[a].model, "initCopilot"))
        /\ session' = Len(sessions) + 1
        /\ initCopilot' = [initCopilot EXCEPT ![a].pc = "done"]
     \/ /\ initCopilot' = [initCopilot EXCEPT ![a].pc = "failed"]
        /\ UNCHANGED <<session, sessions>>
  /\ UNCHANGED <<store, app, launches, currentModel, windows, mainWindow,
                 copilotClient, clients, handlers, quitCalls, extractorVars,
                 rendererVars>>

\* Lines 142-159 up to the first await: the model is checked, currentModel
\* and the setting are written, and the handler awaits destroy, or, with no
\* session, awaits createSession, or, with no client either, returns.
SetModelCall(model) ==
  /\ app = "running"
  /\ Len(handlers) < MaxCalls
  /\ IF ~Contains(AVAILABLE_MODELS, model)
     THEN /\ handlers' = Append(handlers,
                SetModelHandler(model, "threw", "", "", "Invalid model: " \o model))
          /\ UNCHANGED <<store, currentModel, sessions>>
     ELSE /\ currentModel' = model
          /\ store' = StoreSet(store, "model", model)
          /\ IF session /= 0
             THEN /\ sessions' = Destroy(sessions, session)
                  /\ handlers' = Append(handlers,
                        SetModelHandler(model, "destroy", "", "", ""))
             ELSE /\ UNCHANGED sessions
                  /\ handlers' = Append(handlers,
                        IF copilotClient /= 0
                        THEN SetModelHandler(model, "create", model, "", "")
                        ELSE SetModelHandler(model, "returned", "", model, ""))
  /\ UNCHANGED <<app, launches, windows, mainWindow, copilotClient, clients,
                 session, initCopilot, quitCalls, extractorVars, rendererVars>>

\* Lines 153-159 and 186: destroy has resolved; with a client createSession
\* is called with currentModel as it is now, without one the handler returns.
\* Or destroy has rejected and the handler throws.
SetModelDestroyed(k) ==
  /\ app = "running"
  /\ k \in 1..Len(handlers)
  /\ handlers[k].handler = "copilot:setModel"
  /\ handlers[k].pc = "destroy"
  /\ \/ handlers' =
          [handlers EXCEPT ![k] =
             IF copilotClient /= 0
             THEN [@ EXCEPT !.pc = "create", !.creating = currentModel]
             ELSE [@ EXCEPT !.pc = "returned", !.result = currentModel]]
     \/ handlers' = [handlers EXCEPT ![k].pc = "threw",
                                     ![k].error = "destroy rejected"]
  /\ UNCHANGED <<store, app, launches, currentModel, windows, mainWindow,
                 copilotClient, clients, session, sessions, initCopilot,
                 quitCalls, extractorVars, rendererVars>>

\* Lines 157-186: createSession has resolved, session is assigned and the
\* handler returns currentModel, or it has rejected and the handler throws.
SetModelCreated(k) ==
  /\ app = "running"
  /\ k \in 1..Len(handlers)
  /\ handlers[k].handler = "copilot:setModel"
  /\ handlers[k].pc = "create"
  /\ \/ /\ sessions' = Append(sessions,
                              NewSession(handlers[k].creating, "copilot:setModel"))
        /\ session' = Len(sessions) + 1
        /\ handlers' = [handlers EXCEPT ![k].pc = "returned",
                                        ![k].result = currentModel]
     \/ /\ handlers' = [handlers EXCEPT ![k].pc = "threw",
                                        ![k].error = "createSession rejected"]
        /\ UNCHANGED <<session, sessions>>
  /\ UNCHANGED <<store, app, launches, currentModel, windows, mainWindow,
                 copilotClient, clients, initCopilot, quitCalls,
                 extractorVars, rendererVars>>

\* Lines 118-123 and 127-132: with no session the handler throws; else it
\* calls send, or sendAndWait, on the object session refers to and awaits
\* it.  target records that object.
SendCall(handler) ==
  /\ app = "running"
  /\ Len(handlers) < MaxCalls
  /\ handlers' =
       Append(handlers,
              IF session = 0
              THEN HandlerCall(handler, "", "threw", "", "",
                               "Copilot session not initialized", 0)
              ELSE HandlerCall(handler, "", "send", "", "", "", session))
  /\ UNCHANGED <<store, app, launches, currentModel, windows, mainWindow,
                 copilotClient, clients, session, sessions, initCopilot,
                 quitCalls, extractorVars, rendererVars>>

\* Lines 123-124 and 132-133: send, or sendAndWait, has resolved and the
\* handler returns, or it has rejected and the handler throws.
SendReturned(k) ==
  /\ app = "running"
  /\ k \in 1..Len(handlers)
  /\ handlers[k].handler \in SendHandlers
  /\ handlers[k].pc = "send"
  /\ \/ handlers' = [handlers EXCEPT ![k].pc = "returned"]
     \/ handlers' = [handlers EXCEPT ![k].pc = "threw",
                                     ![k].error = "send rejected"]
  /\ UNCHANGED <<store, app, launches, currentModel, windows, mainWindow,
                 copilotClient, clients, session, sessions, initCopilot,
                 quitCalls, extractorVars, rendererVars>>

\* Lines 189-191: what copilot:getModels returns.
GetModels == [models |-> AVAILABLE_MODELS, current |-> currentModel]

\* Lines 193-200 up to the first await: the handler awaits destroy, or, with
\* no session, awaits createSession with the model 'gpt-5', or, with no
\* client either, returns.
ResetCall ==
  /\ app = "running"
  /\ Len(handlers) < MaxCalls
  /\ IF session /= 0
     THEN /\ sessions' = Destroy(sessions, session)
          /\ handlers' =
               Append(handlers,
                      HandlerCall("copilot:reset", "", "destroy", "", "", "", 0))
     ELSE /\ UNCHANGED sessions
          /\ handlers' =
               Append(handlers,
                      IF copilotClient /= 0
                      THEN HandlerCall("copilot:reset", "", "create", "gpt-5",
                                       "", "", 0)
                      ELSE HandlerCall("copilot:reset", "", "returned", "",
                                       "", "", 0))
  /\ UNCHANGED <<store, app, launches, currentModel, windows, mainWindow,
                 copilotClient, clients, session, initCopilot, quitCalls,
                 extractorVars, rendererVars>>

\* Lines 195-200: destroy has resolved; createSession is called with 'gpt-5'
\* when there is a client.  Or destroy has rejected and the handler throws.
ResetDestroyed(k) ==
  /\ app = "running"
  /\ k \in 1..Len(handlers)
  /\ handlers[k].handler = "copilot:reset"
  /\ handlers[k].pc = "destroy"
  /\ \/ handlers' =
          [handlers EXCEPT ![k] =
             IF copilotClient /= 0
             THEN [@ EXCEPT !.pc = "create", !.creating = "gpt-5"]
             ELSE [@ EXCEPT !.pc = "returned"]]
     \/ handlers' = [handlers EXCEPT ![k].pc = "threw",
                                     ![k].error = "destroy rejected"]
  /\ UNCHANGED <<store, app, launches, currentModel, windows, mainWindow,
                 copilotClient, clients, session, sessions, initCopilot,
                 quitCalls, extractorVars, rendererVars>>

\* Lines 198-214: createSession has resolved and session is assigned, or it
\* has rejected and the handler throws.
ResetCreated(k) ==
  /\ app = "running"
  /\ k \in 1..Len(handlers)
  /\ handlers[k].handler = "copilot:reset"
  /\ handlers[k].pc = "create"
  /\ \/ /\ sessions' = Append(sessions,
                              NewSession(handlers[k].creating, "copilot:reset"))
        /\ session' = Len(sessions) + 1
        /\ handlers' = [handlers EXCEPT ![k].pc = "returned"]
     \/ /\ handlers' = [handlers EXCEPT ![k].pc = "threw",
                                        ![k].error = "createSession rejected"]
        /\ UNCHANGED <<session, sessions>>
  /\ UNCHANGED <<store, app, launches, currentModel, windows, mainWindow,
                 copilotClient, clients, initCopilot, quitCalls,
                 extractorVars, rendererVars>>

\* How many calls of the handler this run has seen.
Calls(handler) ==
  Cardinality({i \in 1..Len(handlers) : handlers[i].handler = handler})

\* Line 253: window-all-closed ends with app.quit(); before-quit does not.
QuitCallsAfter(handler) ==
  IF handler = "window-all-closed" THEN quitCalls + 1 ELSE quitCalls

\* Lines 244-253 and 256-263 up to the first await: with a session the
\* handler awaits its destroy; else, with a client, it awaits stop; else it
\* is through.
ShutdownCall(handler) ==
  /\ app /= "off"
  /\ Calls("window-all-closed") + Calls("before-quit") < MaxShutdowns
  /\ IF session /= 0
     THEN /\ sessions' = Destroy(sessions, session)
          /\ handlers' =
               Append(handlers, HandlerCall(handler, "", "destroy", "", "", "", 0))
          /\ UNCHANGED <<clients, quitCalls>>
     ELSE IF copilotClient /= 0
     THEN /\ clients' = Stop(clients, copilotClient)
          /\ handlers' =
               Append(handlers, HandlerCall(handler, "", "stop", "", "", "", 0))
          /\ UNCHANGED <<sessions, quitCalls>>
     ELSE /\ handlers' =
               Append(handlers, HandlerCall(handler, "", "returned", "", "", "", 0))
          /\ quitCalls' = QuitCallsAfter(handler)
          /\ UNCHANGED <<sessions, clients>>
  /\ UNCHANGED <<store, app, launches, currentModel, windows, mainWindow,
                 copilotClient, session, initCopilot, extractorVars,
                 rendererVars>>

\* Lines 246-253 and 258-263: destroy has resolved; session is set to null
\* and, with a client, stop is awaited.  Or destroy has rejected and the
\* handler throws.
ShutdownDestroyed(k) ==
  /\ app /= "off"
  /\ k \in 1..Len(handlers)
  /\ handlers[k].handler \in ShutdownHandlers
  /\ handlers[k].pc = "destroy"
  /\ \/ /\ session' = 0
        /\ IF copilotClient /= 0
           THEN /\ clients' = Stop(clients, copilotClient)
                /\ handlers' = [handlers EXCEPT ![k].pc = "stop"]
                /\ UNCHANGED quitCalls
           ELSE /\ handlers' = [handlers EXCEPT ![k].pc = "returned"]
                /\ quitCalls' = QuitCallsAfter(handlers[k].handler)
                /\ UNCHANGED clients
     \/ /\ handlers' = [handlers EXCEPT ![k].pc = "threw",
                                        ![k].error = "destroy rejected"]
        /\ UNCHANGED <<session, clients, quitCalls>>
  /\ UNCHANGED <<store, app, launches, currentModel, windows, mainWindow,
                 copilotClient, sessions, initCopilot, extractorVars,
                 rendererVars>>

\* Lines 250-253 and 262-264: stop has resolved; copilotClient is set to
\* null, and window-all-closed calls app.quit().  Or stop has rejected and
\* the handler throws.
ShutdownStopped(k) ==
  /\ app /= "off"
  /\ k \in 1..Len(handlers)
  /\ handlers[k].handler \in ShutdownHandlers
  /\ handlers[k].pc = "stop"
  /\ \/ /\ copilotClient' = 0
        /\ handlers' = [handlers EXCEPT ![k].pc = "returned"]
        /\ quitCalls' = QuitCallsAfter(handlers[k].handler)
     \/ /\ handlers' = [handlers EXCEPT ![k].pc = "threw",
                                        ![k].error = "stop rejected"]
        /\ UNCHANGED <<copilotClient, quitCalls>>
  /\ UNCHANGED <<store, app, launches, currentModel, windows, mainWindow,
                 clients, session, sessions, initCopilot, extractorVars,
                 rendererVars>>

\* Line 244: Electron emits window-all-closed when the last open window has
\* been closed, once for each time, and not after a quit was asked for.
WindowAllClosed ==
  /\ Len(windows) > 0
  /\ \A w \in 1..Len(windows) : windows[w] = "closed"
  /\ Calls("window-all-closed") < Len(windows)
  /\ Calls("before-quit") = 0
  /\ ShutdownCall("window-all-closed")

\* Line 256: Electron emits before-quit when the user quits the application
\* or app.quit() is called.
BeforeQuit == ShutdownCall("before-quit")

\* The process ends, after app.quit(), after the user has quit the
\* application or by being killed: what it held in memory is gone, the
\* settings file stays.
Quit ==
  /\ app /= "off"
  /\ app' = "off"
  /\ currentModel' = ""
  /\ windows' = <<>>
  /\ mainWindow' = 0
  /\ copilotClient' = 0
  /\ clients' = <<>>
  /\ session' = 0
  /\ sessions' = <<>>
  /\ initCopilot' = <<>>
  /\ handlers' = <<>>
  /\ quitCalls' = 0
  /\ UNCHANGED <<store, launches, extractorVars, rendererVars>>

InitMain ==
  /\ command = ""
  /\ executables = <<>>
  /\ pc = "ready"
  /\ NoSecond
  /\ MainNotStarted
  /\ AppMounted

NextMain ==
  \/ Launch
  \/ WhenReady
  \/ \E w \in 1..Len(windows) : InitCopilotCall(w)
  \/ \E a \in 1..Len(initCopilot) : InitCopilotStarted(a)
  \/ \E a \in 1..Len(initCopilot) : InitCopilotCreated(a)
  \/ \E model \in RequestedModels : SetModelCall(model)
  \/ \E k \in 1..Len(handlers) : SetModelDestroyed(k)
  \/ \E k \in 1..Len(handlers) : SetModelCreated(k)
  \/ Quit

SpecMain == InitMain /\ [][NextMain]_vars

\* The model preference as the settings st hold it: the value stored under
\* "model", gpt-5 when nothing is stored.
PersistedModel(st) ==
  IF \E kv \in st : kv[1] = "model"
  THEN (CHOOSE kv \in st : kv[1] = "model")[2]
  ELSE "gpt-5"

\* The step brings a new handler call that passed the check of its model.
AcceptsSetModel ==
  /\ Len(handlers') = Len(handlers) + 1
  /\ handlers'[Len(handlers')].handler = "copilot:setModel"
  /\ handlers'[Len(handlers')].error = ""

\* The handler call was refused for its model.
RefusedSetModel(h) == h.error = "Invalid model: " \o h.model

\* What a step may do to the preference: a setModel call that is accepted
\* stores its model, and nothing else changes the setting, the exit and the
\* start of the process included; a start reads currentModel from the
\* setting, and currentModel stays equal to it while the process runs; a
\* setModel call that returns, returns the preference; initCopilot passes the
\* preference to createSession, and the session it assigns has that model,
\* which is still the preference when no setModel call was accepted since
\* the start.
PreferenceStep ==
  /\ AcceptsSetModel
       => PersistedModel(store') = handlers'[Len(handlers')].model
  /\ store' /= store => AcceptsSetModel
  /\ (app = "off" /\ app' /= "off")
       => currentModel' = PersistedModel(store)
  /\ app' /= "off" => currentModel' = PersistedModel(store')
  /\ \A k \in 1..Len(handlers) :
       (app' /= "off" /\ handlers[k].pc /= "returned"
          /\ handlers'[k].pc = "returned")
         => handlers'[k].result = PersistedModel(store')
  /\ \A a \in 1..Len(initCopilot) :
       /\ (a <= Len(initCopilot') /\ initCopilot[a].pc = "start"
              /\ initCopilot'[a].pc = "create")
            => initCopilot'[a].model = PersistedModel(store')
       /\ (a <= Len(initCopilot') /\ initCopilot[a].pc = "create"
              /\ initCopilot'[a].pc = "done")
            => /\ sessions'[session'].model = initCopilot[a].model
               /\ (\A k \in 1..Len(handlers) : RefusedSetModel(handlers[k]))
                    => sessions'[session'].model = PersistedModel(store')

\* C19: the model preference survives a restart: a successful setModel with
\* model m leaves m as the persisted setting, the setting is kept over the
\* exit and the next start of the main process, which initialises
\* currentModel from it (gpt-5 when nothing was stored) and creates its first
\* session with that model.
C19_PreferenceSurvivesRestart == [][PreferenceStep]_vars

\* The process runs for the second time, no model was set in this run, and
\* initCopilot has created the first session with the model set in the run
\* before.
C19_Witness ==
  /\ app = "running"
  /\ launches = 2
  /\ handlers = <<>>
  /\ store = {<<"model", "claude-sonnet-4">>}
  /\ currentModel = "claude-sonnet-4"
  /\ Len(initCopilot) = 1
  /\ initCopilot[1].pc = "done"
  /\ session = 1
  /\ sessions[1] = NewSession("claude-sonnet-4", "initCopilot")

\* The four models the specification names.
ListedModels == {"gpt-5", "claude-sonnet-4.5", "claude-sonnet-4", "gpt-4.1"}

\* The step brings a new call of the copilot:setModel handler.
CallsSetModel ==
  /\ Len(handlers') = Len(handlers) + 1
  /\ handlers'[Len(handlers')].handler = "copilot:setModel"

\* A call with one of the four models is not refused; a call with any other
\* model throws Invalid model and leaves currentModel, the setting, the
\* session variable and every session object as they were.
ValidationStep ==
  CallsSetModel
  => LET call == handlers'[Len(handlers')]
     IN  IF call.model \in ListedModels
         THEN call.error = ""
         ELSE /\ call.pc = "threw"
              /\ Sub(call.error, 1, 13) = "Invalid model"
              /\ currentModel' = currentModel
              /\ store' = store
              /\ session' = session
              /\ sessions' = sessions

\* C21: copilot:setModel accepts only gpt-5, claude-sonnet-4.5,
\* claude-sonnet-4 and gpt-4.1; for any other model it fails with Invalid
\* model, and currentModel, the persisted setting and the current session are
\* left unchanged, the session not destroyed.
C21_OnlyListedModelsAccepted == [][ValidationStep]_vars

\* A call with a model that is not on the list was refused while a session
\* was live and another model than the default was set; the session is not
\* destroyed.
C21_Witness ==
  /\ app = "running"
  /\ Len(handlers) = 2
  /\ handlers[2].model = "gpt-4"
  /\ handlers[2].pc = "threw"
  /\ session /= 0
  /\ ~sessions[session].destroyed
  /\ currentModel = "claude-sonnet-4"
  /\ store = {<<"model", "claude-sonnet-4">>}

(***************************************************************************)
(* Redirections in front of a separator: a command, a numbered redirection *)
(* attached to it, a separator written without white space, a command.     *)
(***************************************************************************)
RedirectedCommands == {"ls", "git log", "cmd -v"}

NumberedRedirections ==
  {" " \o n \o op \o target :
     n \in {"1", "2"}, op \in {">", ">>"}, target \in {"x", "/tmp/o", "out.log"}}

TightSeparators == {";", "|", "&&"}

FollowingCommands == {"rm", "cat f", "npm run b"}

AttachedInputs ==
  {a \o r \o sep \o b :
     a \in RedirectedCommands, r \in NumberedRedirections,
     sep \in TightSeparators, b \in FollowingCommands}

InitAttached ==
  /\ command \in AttachedInputs \cup Examples
  /\ executables = <<>>
  /\ pc = "ready"
  /\ NoSecond
  /\ MainNotStarted
  /\ AppMounted

SpecAttached == InitAttached /\ [][Next]_vars

\* C22: stripping a redirection removes the redirection and its target only:
\* for a simple command, a numbered redirection N>target or N>>target
\* attached to it, a separator ; | or && without white space around it, and a
\* second simple command, the result holds the identity of the second
\* command.
C22_RedirectionKeepsFollowingCommand ==
  pc = "returned"
  => \A a \in RedirectedCommands, r \in NumberedRedirections,
        sep \in TightSeparators, b \in FollowingCommands :
       command = a \o r \o sep \o b
         => Contains(executables, ExpectedIdentity(Parts(b), 1))

\* C23: no reported identity has as its executable word one of the skipped
\* words (a prefix, true or false, or a shell keyword), whatever the input,
\* a skipped word named through a path included.
C23_SkippedWordNeverReported ==
  pc = "returned"
  => \A k \in 1..Len(executables) :
       ExecutableWord(executables[k])
         \notin ListedPrefixes \cup ListedBuiltins \cup ListedKeywords

(***************************************************************************)
(* Heredocs fed into a pipe: a command, the opener, a pipe and a second    *)
(* command on the opener's line, then the body and the terminator line.    *)
(***************************************************************************)
FeedingCommands == {"cat", "git log", "ls -l"}

PipedCommands == {"wc", "npm run b", "grep x"}

PipedBodies == {"x", "rm -rf /", "a\nb"}

PipedInputs ==
  {a \o " <<" \o q \o marker \o q \o " | " \o b \o "\n" \o body \o "\n"
     \o marker \o after :
     a \in FeedingCommands, q \in {"", "'"}, marker \in {"EOF", "A"},
     b \in PipedCommands, body \in PipedBodies, after \in {"", "\n", "\nls"}}

InitPiped ==
  /\ command \in PipedInputs \cup Examples
  /\ executables = <<>>
  /\ pc = "ready"
  /\ NoSecond
  /\ MainNotStarted
  /\ AppMounted

SpecPiped == InitPiped /\ [][Next]_vars

\* C24: stripping a heredoc removes the operator, the marker and the body
\* through the terminator line only; text on the opener's line after the
\* marker still counts: for A <<EOF | B, a body and the line EOF, with simple
\* commands A and B, the result holds the identities of both A and B.
C24_OpenerLineStillCounts ==
  pc = "returned"
  => \A a \in FeedingCommands, q \in {"", "'"}, marker \in {"EOF", "A"},
        b \in PipedCommands, body \in PipedBodies, after \in {"", "\n", "\nls"} :
       command = a \o " <<" \o q \o marker \o q \o " | " \o b \o "\n" \o body
                   \o "\n" \o marker \o after
         => /\ Contains(executables, ExpectedIdentity(Parts(a), 1))
            /\ Contains(executables, ExpectedIdentity(Parts(b), 1))

(***************************************************************************)
(* Re-extraction: inputs whose identities are lower-case and upper-case    *)
(* words, compound identities, and words named through a path, flags       *)
(* among them.                                                             *)
(***************************************************************************)
MaxStableTokens == 4

StableTokens == {"LS", "ls", "git", "sudo", "-", " ", ";", "/"}

InitStable ==
  /\ command \in TokenStrings(StableTokens, MaxStableTokens) \cup Examples
  /\ executables = <<>>
  /\ pc = "ready"
  /\ NoSecond
  /\ MainNotStarted
  /\ AppMounted

SpecStable == InitStable /\ [][Next]_vars

\* The entries of the list from the k-th on, joined by ";".
RECURSIVE JoinedBySemicolon(_, _)
JoinedBySemicolon(list, k) ==
  IF k > Len(list) THEN ""
  ELSE IF k = Len(list) THEN list[k]
  ELSE list[k] \o ";" \o JoinedBySemicolon(list, k + 1)

\* The identity is neither one upper-case word, nor a word of the skip lists,
\* nor a word that starts with "-".
IsKeptAlone(execId) ==
  /\ ~AllIn(execId, Upper)
  /\ Ch(execId, 1) /= "-"
  /\ execId \notin ListedPrefixes \cup ListedBuiltins \cup ListedKeywords

\* C25 as written (stated for the inputs that name nothing through a path):
\* every identity of a result, extracted on its own, gives itself, and the
\* result joined with ";" gives the same result.
C25_ReExtractionIsStable ==
  (pc = "returned" /\ ~Includes(command, "/"))
  => /\ \A k \in 1..Len(executables) :
          extractExecutables(executables[k]) = <<executables[k]>>
     /\ extractExecutables(JoinedBySemicolon(executables, 1)) = executables

\* C25, amended: every identity of a result, extracted on its own, gives
\* itself, except an identity that is one upper-case word, a word of the
\* skip lists or a word that starts with "-", which gives nothing; the
\* result joined with ";" gives the result without those identities.
C25_ReExtractionKeepsAllButDropped ==
  pc = "returned"
  => /\ \A k \in 1..Len(executables) :
          extractExecutables(executables[k]) =
            IF IsKeptAlone(executables[k]) THEN <<executables[k]>> ELSE <<>>
     /\ extractExecutables(JoinedBySemicolon(executables, 1)) =
          SelectSeq(executables, IsKeptAlone)

\* A call returned an upper-case word as the identity of a command with an
\* argument, and that identity on its own gives nothing.
C25_Witness ==
  /\ pc = "returned"
  /\ command = "LS ls"
  /\ executables = <<"LS">>
  /\ extractExecutables(JoinedBySemicolon(executables, 1)) = <<>>

\* ------------------------------------------------------------------------
\* The runs of the main process with the other handlers.

\* The models the renderer asks for in the runs with the request handlers.
ProcessModels == {"claude-sonnet-4.5", "gpt-4"}

\* The main process with the handlers of the renderer's requests.
NextRequests ==
  \/ Launch
  \/ WhenReady
  \/ \E w \in 1..Len(windows) : InitCopilotCall(w)
  \/ \E a \in 1..Len(initCopilot) : InitCopilotStarted(a)
  \/ \E a \in 1..Len(initCopilot) : InitCopilotCreated(a)
  \/ \E model \in ProcessModels : SetModelCall(model)
  \/ \E k \in 1..Len(handlers) : SetModelDestroyed(k)
  \/ \E k \in 1..Len(handlers) : SetModelCreated(k)
  \/ \E handler \in SendHandlers : SendCall(handler)
  \/ \E k \in 1..Len(handlers) : SendReturned(k)
  \/ ResetCall
  \/ \E k \in 1..Len(handlers) : ResetDestroyed(k)
  \/ \E k \in 1..Len(handlers) : ResetCreated(k)
  \/ Quit

SpecRequests == InitMain /\ [][NextRequests]_vars

\* The main process with the handlers of the shutdown events.
NextShutdown ==
  \/ Launch
  \/ WhenReady
  \/ Activate
  \/ \E w \in 1..Len(windows) : WindowClosed(w)
  \/ \E w \in 1..Len(windows) : InitCopilotCall(w)
  \/ \E a \in 1..Len(initCopilot) : InitCopilotStarted(a)
  \/ \E a \in 1..Len(initCopilot) : InitCopilotCreated(a)
  \/ WindowAllClosed
  \/ BeforeQuit
  \/ \E k \in 1..Len(handlers) : ShutdownDestroyed(k)
  \/ \E k \in 1..Len(handlers) : ShutdownStopped(k)
  \/ Quit

SpecShutdown == InitMain /\ [][NextShutdown]_vars

\* Every state of the main process is well formed.
ProcessTypeOK ==
  /\ session \in 0..Len(sessions)
  /\ copilotClient \in 0..Len(clients)
  /\ mainWindow \in 0..Len(windows)
  /\ quitCalls \in Nat

\* ------------------------------------------------------------------------
\* C26

\* Every request of this run is over: it returned, or it was refused for its
\* model.
RequestsCompleted ==
  \A i \in 1..Len(handlers) :
    handlers[i].pc = "returned" \/ RefusedSetModel(handlers[i])

\* The session the variable session refers to was created by a request
\* handler, not by initCopilot.
LiveSessionFromRequest ==
  /\ session /= 0
  /\ sessions[session].by \in {"copilot:setModel", "copilot:reset"}

\* C26: after any completed sequence of copilot:setModel and copilot:reset
\* requests, with the client started, the model the live session was created
\* with equals currentModel as copilot:getModels returns it, and equals the
\* persisted setting model.
C26_LiveSessionHasCurrentModel ==
  (/\ app = "running"
   /\ copilotClient /= 0
   /\ clients[copilotClient].state = "started"
   /\ \A a \in 1..Len(initCopilot) : initCopilot[a].pc = "done"
   /\ RequestsCompleted
   /\ LiveSessionFromRequest)
  => /\ sessions[session].model = GetModels.current
     /\ GetModels.current = PersistedModel(store)

\* ------------------------------------------------------------------------
\* C27

\* The calls of copilot:send and copilot:sendAndWait that a step adds either
\* fail for the missing session or call the session that is live: one on
\* which destroy() was not called.
SendStep ==
  \A i \in 1..Len(handlers') :
    (i > Len(handlers) /\ handlers'[i].handler \in SendHandlers)
    => \/ /\ handlers'[i].error = "Copilot session not initialized"
          /\ handlers'[i].target = 0
       \/ /\ handlers'[i].target /= 0
          /\ handlers'[i].target = session
          /\ ~sessions[session].destroyed

\* C27: in every interleaving of the handlers, a copilot:send or
\* copilot:sendAndWait request either fails with "Copilot session not
\* initialized" or calls the live session; it never calls send on a session
\* whose destroy() a concurrent handler has already started.
C27_SendNeverCallsDestroyedSession == [][SendStep]_vars

\* ------------------------------------------------------------------------
\* C28

\* Each of the two shutdown events arrived once in this run.
OneOfEach == \A handler \in ShutdownHandlers : Calls(handler) = 1

\* The calls of the shutdown handlers are through.
ShutdownFinished ==
  \A i \in 1..Len(handlers) :
    handlers[i].handler \in ShutdownHandlers => handlers[i].pc = "returned"

\* C28: during shutdown, whatever the order and interleaving of the
\* window-all-closed and before-quit handlers, destroy() is called at most
\* once on the session and stop() at most once on the client, and when both
\* handlers have finished session and copilotClient are null.
C28_ShutdownCleansUpOnce ==
  OneOfEach
  => /\ \A i \in 1..Len(sessions) : sessions[i].destroyCalls <= 1
     /\ \A i \in 1..Len(clients) : clients[i].stopCalls <= 1
     /\ ShutdownFinished => (session = 0 /\ copilotClient = 0)

(***************************************************************************)
(* The renderer of src/renderer/App.tsx: the message list, the processing  *)
(* flag and the tool indicators, with the handlers of the IPC events and   *)
(* of the Send, Stop, New Chat and model controls.  A handler runs in one  *)
(* step, an async one from one await to the next; the state updates it     *)
(* queues are applied in the order it queued them.  An absent isStreaming  *)
(* is FALSE, as every test of the field reads it.  The ids of generateId   *)
(* are the values of its counter.                                          *)
(***************************************************************************)
\* How many events a run of the renderer handles.
MaxEvents == 5

\* What the user types, what the session streams and reports, the models
\* the main process names, and the tool events of the runs.  A field that an
\* event does not carry is the empty string, which the tests of lines 106,
\* 107 and 118 read as they read an absent field.
InputValues == {" ", "hi "}
Deltas == {" ", "a"}
Contents == {"", "ok"}
Errors == {"x"}
RendererModels == {"gpt-5", "claude-sonnet-4.5"}
ReadyData == {[model |-> m, models |-> AVAILABLE_MODELS] : m \in RendererModels}
ModelsData == {[models |-> AVAILABLE_MODELS, current |-> m] : m \in RendererModels}
ToolEvents ==
  {[toolCallId |-> "t1", toolName |-> "bash", name |-> ""],
   [toolCallId |-> "t2", toolName |-> "report_intent", name |-> ""],
   [toolCallId |-> "", toolName |-> "", name |-> "view"],
   [toolCallId |-> "", toolName |-> "", name |-> ""]}

\* Lines 6-13: a message.
Message(id, role, content, isStreaming) ==
  [id |-> id, role |-> role, content |-> content, isStreaming |-> isStreaming]

\* Lines 76 and 86: the list has a last message, it is the assistant's and
\* it is streaming.
LastIsStreaming(prev) ==
  /\ Len(prev) > 0
  /\ prev[Len(prev)].role = "assistant"
  /\ prev[Len(prev)].isStreaming

\* A handled event is counted.
Handled ==
  /\ events < MaxEvents
  /\ events' = events + 1

\* Lines 56-61: copilot:ready.
OnReady(data) ==
  /\ Handled
  /\ status' = "connected"
  /\ rendererModel' = data.model
  /\ availableModels' = data.models
  /\ UNCHANGED <<messages, isProcessing, activeTools, messageIdCounter,
                 sending, timers, fetching, resetting, changing,
                 extractorVars, mainVars>>

\* Lines 64-71: the getModels call of the mount has resolved with data, or
\* it has rejected, which is logged.
GetModelsSettled(data) ==
  /\ Handled
  /\ fetching > 0
  /\ fetching' = fetching - 1
  /\ \/ IF Len(data.models) > 0
        THEN /\ availableModels' = data.models
             /\ rendererModel' = data.current
             /\ status' = "connected"
        ELSE UNCHANGED <<availableModels, rendererModel, status>>
     \/ UNCHANGED <<availableModels, rendererModel, status>>
  /\ UNCHANGED <<messages, isProcessing, activeTools, messageIdCounter,
                 sending, timers, resetting, changing, extractorVars,
                 mainVars>>

\* Lines 73-81: copilot:delta.
OnDelta(delta) ==
  /\ Handled
  /\ messages' =
       IF LastIsStreaming(messages)
       THEN [messages EXCEPT ![Len(messages)].content = @ \o delta]
       ELSE messages
  /\ UNCHANGED <<status, isProcessing, activeTools, messageIdCounter, sending,
                 timers, rendererModel, availableModels, fetching, resetting,
                 changing, extractorVars, mainVars>>

\* Lines 83-91: copilot:message.
OnMessage(content) ==
  /\ Handled
  /\ IF LastIsStreaming(messages)
     THEN /\ messages' = [messages EXCEPT ![Len(messages)].content = content,
                                           ![Len(messages)].isStreaming = FALSE]
          /\ UNCHANGED messageIdCounter
     ELSE /\ messages' = Append(messages,
                                Message(messageIdCounter + 1, "assistant",
                                        content, FALSE))
          /\ messageIdCounter' = messageIdCounter + 1
  /\ UNCHANGED <<status, isProcessing, activeTools, sending, timers,
                 rendererModel, availableModels, fetching, resetting,
                 changing, extractorVars, mainVars>>

\* Line 98: the messages the filter keeps.
IdleKeepsAll(msg) == TRUE

IdleKeeps(msg) == Trim(msg.content) /= "" \/ msg.role = "user"

\* Line 99: a streaming message is finalized.
Finalize(msg) ==
  IF msg.isStreaming THEN [msg EXCEPT !.isStreaming = FALSE] ELSE msg

\* Lines 96-101: the list after copilot:idle.
IdleMessages(prev) ==
  LET kept == SelectSeq(prev, IdleKeeps)
  IN  [i \in 1..Len(kept) |-> Finalize(kept[i])]

\* Lines 93-102: copilot:idle.
OnIdle ==
  /\ Handled
  /\ isProcessing' = FALSE
  /\ activeTools' = <<>>
  /\ messages' = IdleMessages(messages)
  /\ UNCHANGED <<status, messageIdCounter, sending, timers, rendererModel,
                 availableModels, fetching, resetting, changing,
                 extractorVars, mainVars>>

\* Lines 106 and 118: the name of the tool of an event.
ToolName(data) ==
  IF data.toolName /= "" THEN data.toolName
  ELSE IF data.name /= "" THEN data.name
  ELSE "unknown"

\* Line 21: the id generateId returns when it has raised the counter to n,
\* without its time stamp.
GeneratedToolCallId(n) == "msg-" \o ToString(n)

\* Lines 110 and 121: the tools that get no indicator.
IsInternalTool(toolName) == toolName \in {"report_intent", "update_todo"}

\* Lines 104-113: copilot:tool-start.  An event without a toolCallId gets
\* one from generateId, before the internal tools are skipped.
OnToolStart(data) ==
  /\ Handled
  /\ messageIdCounter' =
       IF data.toolCallId /= "" THEN messageIdCounter ELSE messageIdCounter + 1
  /\ activeTools' =
       IF IsInternalTool(ToolName(data))
       THEN activeTools
       ELSE Append(activeTools,
                   [toolCallId |->
                      IF data.toolCallId /= "" THEN data.toolCallId
                      ELSE GeneratedToolCallId(messageIdCounter + 1),
                    toolName |-> ToolName(data),
                    status |-> "running"])
  /\ UNCHANGED <<status, messages, isProcessing, sending, timers,
                 rendererModel, availableModels, fetching, resetting,
                 changing, extractorVars, mainVars>>

\* Lines 115-131: copilot:tool-end marks the indicators of its toolCallId
\* done and starts a timer that removes them.
OnToolEnd(data) ==
  /\ Handled
  /\ IF IsInternalTool(ToolName(data))
     THEN UNCHANGED <<activeTools, timers>>
     ELSE /\ activeTools' =
               [i \in 1..Len(activeTools) |->
                  IF activeTools[i].toolCallId = data.toolCallId
                  THEN [activeTools[i] EXCEPT !.status = "done"]
                  ELSE activeTools[i]]
          /\ timers' = Append(timers, data.toolCallId)
  /\ UNCHANGED <<status, messages, isProcessing, messageIdCounter, sending,
                 rendererModel, availableModels, fetching, resetting,
                 changing, extractorVars, mainVars>>

\* The indicator of t is not the one the timer removes.
IsOtherTool(toolCallId, t) == t.toolCallId /= toolCallId

\* Lines 128-130: a timer of a tool-end fires.  The timers have one delay
\* and fire in the order they were started.
ToolTimeout ==
  /\ Handled
  /\ timers /= <<>>
  /\ timers' = Tail(timers)
  /\ activeTools' =
       SelectSeq(activeTools, LAMBDA t : IsOtherTool(Head(timers), t))
  /\ UNCHANGED <<status, messages, isProcessing, messageIdCounter, sending,
                 rendererModel, availableModels, fetching, resetting,
                 changing, extractorVars, mainVars>>

\* Lines 133-141: copilot:error.
OnError(error) ==
  /\ Handled
  /\ status' = "disconnected"
  /\ messages' = Append(messages,
                        Message(messageIdCounter + 1, "assistant",
                                "Error: " \o error, FALSE))
  /\ messageIdCounter' = messageIdCounter + 1
  /\ UNCHANGED <<isProcessing, activeTools, sending, timers, rendererModel,
                 availableModels, fetching, resetting, changing,
                 extractorVars, mainVars>>

\* Lines 154-177, 437 and 442: the user sends inputValue.  The input and the
\* button are disabled unless status is connected and nothing is processed;
\* the handler returns at once for a blank input.  It then awaits
\* copilot.send.
HandleSendMessage(inputValue) ==
  /\ Handled
  /\ status = "connected"
  /\ ~isProcessing
  /\ IF Trim(inputValue) = ""
     THEN UNCHANGED <<messages, isProcessing, activeTools, messageIdCounter,
                      sending>>
     ELSE /\ messages' =
               messages \o
               <<Message(messageIdCounter + 1, "user", Trim(inputValue), FALSE),
                 Message(messageIdCounter + 2, "assistant", "", TRUE)>>
          /\ messageIdCounter' = messageIdCounter + 2
          /\ isProcessing' = TRUE
          /\ activeTools' = <<>>
          /\ sending' = sending + 1
  /\ UNCHANGED <<status, timers, rendererModel, availableModels, fetching,
                 resetting, changing, extractorVars, mainVars>>

\* Lines 177-181: copilot.send has resolved, or it has rejected and the
\* catch clears the flag.
SendSettled ==
  /\ Handled
  /\ sending > 0
  /\ sending' = sending - 1
  /\ \/ UNCHANGED isProcessing
     \/ isProcessing' = FALSE
  /\ UNCHANGED <<status, messages, activeTools, messageIdCounter, timers,
                 rendererModel, availableModels, fetching, resetting,
                 changing, extractorVars, mainVars>>

\* Lines 191-194 and 297: the Stop button, shown while isProcessing.
HandleStop ==
  /\ Handled
  /\ isProcessing
  /\ isProcessing' = FALSE
  /\ UNCHANGED <<status, messages, activeTools, messageIdCounter, sending,
                 timers, rendererModel, availableModels, fetching, resetting,
                 changing, extractorVars, mainVars>>

\* Lines 196-199 and 309-310: the New Chat button; the handler empties the
\* list and awaits copilot.reset.
HandleReset ==
  /\ Handled
  /\ status' = "connecting"
  /\ messages' = <<>>
  /\ resetting' = resetting + 1
  /\ UNCHANGED <<isProcessing, activeTools, messageIdCounter, sending, timers,
                 rendererModel, availableModels, fetching, changing,
                 extractorVars, mainVars>>

\* Lines 199-201: copilot.reset has resolved, or it has rejected, which
\* nothing catches.
ResetSettled ==
  /\ Handled
  /\ resetting > 0
  /\ resetting' = resetting - 1
  /\ \/ status' = "connected"
     \/ UNCHANGED status
  /\ UNCHANGED <<messages, isProcessing, activeTools, messageIdCounter,
                 sending, timers, rendererModel, availableModels, fetching,
                 changing, extractorVars, mainVars>>

\* Lines 203-214 and 266-277: the user picks a model of the dropdown, which
\* lists availableModels.  The model shown already only closes the dropdown;
\* for another the handler empties the list and awaits copilot.setModel.
HandleModelChange(model) ==
  /\ Handled
  /\ Contains(availableModels, model)
  /\ IF model = rendererModel
     THEN UNCHANGED <<status, messages, changing>>
     ELSE /\ status' = "connecting"
          /\ messages' = <<>>
          /\ changing' = changing + 1
  /\ UNCHANGED <<isProcessing, activeTools, messageIdCounter, sending, timers,
                 rendererModel, availableModels, fetching, resetting,
                 extractorVars, mainVars>>

\* Lines 213-220: copilot.setModel has resolved with the model the main
\* process returns, or it has rejected.
ModelChangeSettled(model) ==
  /\ Handled
  /\ changing > 0
  /\ changing' = changing - 1
  /\ status' = "connected"
  /\ \/ rendererModel' = model
     \/ UNCHANGED rendererModel
  /\ UNCHANGED <<messages, isProcessing, activeTools, messageIdCounter,
                 sending, timers, availableModels, fetching, resetting,
                 extractorVars, mainVars>>

InitRenderer ==
  /\ command = ""
  /\ executables = <<>>
  /\ pc = "ready"
  /\ NoSecond
  /\ MainNotStarted
  /\ AppMounted

NextRenderer ==
  \/ \E data \in ReadyData : OnReady(data)
  \/ \E data \in ModelsData : GetModelsSettled(data)
  \/ \E delta \in Deltas : OnDelta(delta)
  \/ \E content \in Contents : OnMessage(content)
  \/ OnIdle
  \/ \E data \in ToolEvents : OnToolStart(data)
  \/ \E data \in ToolEvents : OnToolEnd(data)
  \/ ToolTimeout
  \/ \E error \in Errors : OnError(error)
  \/ \E inputValue \in InputValues : HandleSendMessage(inputValue)
  \/ SendSettled
  \/ HandleStop
  \/ HandleReset
  \/ ResetSettled
  \/ \E model \in RendererModels : HandleModelChange(model)
  \/ \E model \in RendererModels : ModelChangeSettled(model)

SpecRenderer == InitRenderer /\ [][NextRenderer]_vars

\* ------------------------------------------------------------------------
\* C29

\* The positions of the messages that are streaming.
Streaming(list) == {i \in 1..Len(list) : list[i].isStreaming}

\* At most one message is streaming, and it is the last of the list.
OnlyLastStreams(list) ==
  /\ Cardinality(Streaming(list)) <= 1
  /\ \A i \in Streaming(list) : i = Len(list)

\* A delta changes no message but the streaming one, to which it is
\* appended.
DeltaStep ==
  \A delta \in Deltas :
    OnDelta(delta) =>
      /\ Len(messages') = Len(messages)
      /\ \A i \in 1..Len(messages) :
           messages'[i] /= messages[i] =>
             /\ Streaming(messages) = {i}
             /\ messages'[i] =
                  [messages[i] EXCEPT !.content = @ \o delta]

\* C29: after any sequence of Send, Stop, delta, message, idle and error
\* events at most one message of the list has isStreaming = true, and it is
\* the last message of the list; a delta is appended only to that message.
C29_OneStreamingMessageAtEnd ==
  [][OnlyLastStreams(messages') /\ DeltaStep]_vars

\* ------------------------------------------------------------------------
\* C30

\* The user's messages of a list, in their order.
UserMessages(list) == SelectSeq(list, LAMBDA msg : msg.role = "user")

\* A content of white space only.
IsBlankContent(content) == content = "" \/ AllIn(content, Space)

\* What holds right after copilot:idle was handled.
IdleStep ==
  OnIdle =>
    /\ isProcessing' = FALSE
    /\ activeTools' = <<>>
    /\ Streaming(messages') = {}
    /\ \A i \in 1..Len(messages') :
         messages'[i].role /= "user" => ~IsBlankContent(messages'[i].content)
    /\ UserMessages(messages') = UserMessages(messages)

\* C30: immediately after the renderer handles copilot:idle, isProcessing is
\* false, the active-tool list is empty, no message has isStreaming = true,
\* every non-user message with blank content has been removed, and the user
\* messages are all kept in their order.
C30_IdleSettlesTheList == [][IdleStep]_vars

\* Reached only through copilot:idle: after ready, Send, a delta of one
\* space and a tool start, the blank placeholder is gone with the tool
\* indicator and the flag, and the user's message is kept.
C30_Witness ==
  /\ events = 5
  /\ status = "connected"
  /\ messages = <<Message(1, "user", "hi", FALSE)>>
  /\ messageIdCounter = 2
  /\ ~isProcessing
  /\ activeTools = <<>>
  /\ timers = <<>>
  /\ sending = 1

====
